---- MODULE Spec2Model ----
(***************************************************************************)
(* Model of SheetsExtractor (src/sheets_extractor.py): the numeric value   *)
(* normalizer, the date normalizer, the column role resolution of the flat *)
(* and of the hierarchical monthly view, the two aggregations and the      *)
(* contract projection merge.                                              *)
(*                                                                         *)
(* Text is modelled character by character on TLA+ strings.  A float is    *)
(* modelled as an exact decimal [m |-> mantissa, e |-> fraction digits],   *)
(* value m / 10^e, kept normalised (no trailing fraction zero).            *)
(***************************************************************************)
EXTENDS Integers, Sequences, FiniteSets, TLC

VARIABLES
    data,              \* self.data: the loaded row batch
    column_overrides,  \* self.column_overrides
    contracts_data,    \* self.contracts_data
    last_error,        \* self.last_error
    arg,               \* the argument of the last call
    ret,               \* the value the last call returned
    service,           \* self.service is built (TRUE) or None (FALSE)
    public_only,       \* self.public_only
    preferred_sheet_title, \* self.preferred_sheet_title
    pc,                \* the position inside extract_data_from_sheet, "idle" outside
    requests           \* the requests the running or last extract_data_from_sheet sent

vars == <<data, column_overrides, contracts_data, last_error, arg, ret,
          service, public_only, preferred_sheet_title, pc, requests>>

\* the fields and the position of the fetch
FetchState == <<service, public_only, preferred_sheet_title, pc, requests>>

\* lines 32, 39 and 43: the fetch fields after construction, outside a call
FetchIdle ==
    /\ service = FALSE
    /\ public_only = FALSE
    /\ preferred_sheet_title = "Despesas"
    /\ pc = "idle"
    /\ requests = << >>

(***************************************************************************)
(* Bounds                                                                  *)
(***************************************************************************)
\* longest text enumerated over ValueAlphabet for the value normalizer
MaxTextLen == 4
\* most rows of a loaded batch
MaxRows == 2

(***************************************************************************)
(* Text                                                                    *)
(***************************************************************************)
Ch(s, i) == SubSeq(s, i, i)

Rest(s) == SubSeq(s, 2, Len(s))

Digits == {"0", "1", "2", "3", "4", "5", "6", "7", "8", "9"}

Whitespace == {" ", "\t", "\n", "\r"}

\* c in s, for texts
Contains(s, c) ==
    \E i \in 1..(Len(s) - Len(c) + 1) : SubSeq(s, i, i + Len(c) - 1) = c

\* a or b, on texts with "" for None
Or(a, b) == IF a # "" THEN a ELSE b

StartsWith(s, c) == Len(s) >= Len(c) /\ SubSeq(s, 1, Len(c)) = c

EndsWith(s, c) == Len(s) >= Len(c) /\ SubSeq(s, Len(s) - Len(c) + 1, Len(s)) = c

\* str.strip()
RECURSIVE LStrip(_)
LStrip(s) == IF s # "" /\ Ch(s, 1) \in Whitespace THEN LStrip(Rest(s)) ELSE s

RECURSIVE RStrip(_)
RStrip(s) ==
    IF s # "" /\ Ch(s, Len(s)) \in Whitespace
    THEN RStrip(SubSeq(s, 1, Len(s) - 1)) ELSE s

Strip(s) == RStrip(LStrip(s))

\* the characters of s that are in keep, in order: re.sub(r'[^...]', '', s)
RECURSIVE KeepChars(_, _)
KeepChars(s, keep) ==
    IF s = "" THEN ""
    ELSE (IF Ch(s, 1) \in keep THEN Ch(s, 1) ELSE "") \o KeepChars(Rest(s), keep)

\* s.replace(a, b) for a single character a
RECURSIVE ReplaceChar(_, _, _)
ReplaceChar(s, a, b) ==
    IF s = "" THEN ""
    ELSE (IF Ch(s, 1) = a THEN b ELSE Ch(s, 1)) \o ReplaceChar(Rest(s), a, b)

\* s.count(a) for a single character a
RECURSIVE CountChar(_, _)
CountChar(s, a) ==
    IF s = "" THEN 0
    ELSE (IF Ch(s, 1) = a THEN 1 ELSE 0) + CountChar(Rest(s), a)

DigitVal(c) ==
    CASE c = "0" -> 0 [] c = "1" -> 1 [] c = "2" -> 2 [] c = "3" -> 3
      [] c = "4" -> 4 [] c = "5" -> 5 [] c = "6" -> 6 [] c = "7" -> 7
      [] c = "8" -> 8 [] c = "9" -> 9

\* int(s) for a text of digits ("" gives 0)
RECURSIVE DigitsToInt(_)
DigitsToInt(s) ==
    IF s = "" THEN 0
    ELSE DigitsToInt(SubSeq(s, 1, Len(s) - 1)) * 10 + DigitVal(Ch(s, Len(s)))

(***************************************************************************)
(* Decimal numbers (the floats of the program)                             *)
(***************************************************************************)
RECURSIVE Norm(_)
Norm(d) ==
    IF d.e > 0 /\ d.m % 10 = 0 THEN Norm([m |-> d.m \div 10, e |-> d.e - 1])
    ELSE d

Zero == [m |-> 0, e |-> 0]

Dec(m, e) == Norm([m |-> m, e |-> e])

Max2(a, b) == IF a >= b THEN a ELSE b

DAdd(a, b) ==
    LET e == Max2(a.e, b.e)
    IN  Dec(a.m * 10^(e - a.e) + b.m * 10^(e - b.e), e)

DNeg(a) == [m |-> 0 - a.m, e |-> a.e]

DSub(a, b) == DAdd(a, DNeg(b))

DGt(a, b) == DSub(a, b).m > 0

\* |a - b| <= 0.01
DWithinCent(a, b) ==
    LET d == DSub(a, b)
        e == Max2(d.e, 2)
        n == d.m * 10^(e - d.e)
    IN  n <= 10^(e - 2) /\ 0 - n <= 10^(e - 2)

(***************************************************************************)
(* _extract_expense_value                                                  *)
(***************************************************************************)
PlaceholderTokens == {"-", "", "Por Consumo", "N/A", "n/a"}

\* re.search(r"\(\s*[^\)]*\)", s): an opening parenthesis with a closing one after it
HasParenthesised(s) ==
    \E i \in 1..Len(s) : \E j \in (i + 1)..Len(s) : Ch(s, i) = "(" /\ Ch(s, j) = ")"

\* float(c) for a text of digits and dots: [raised, value]
ParseFloat(c) ==
    IF CountChar(c, ".") > 1 \/ KeepChars(c, Digits) = ""
    THEN [raised |-> TRUE, value |-> Zero]
    ELSE LET all  == KeepChars(c, Digits)
             dot  == CHOOSE i \in 1..(Len(c) + 1) :
                        IF CountChar(c, ".") = 0 THEN i = Len(c) + 1 ELSE Ch(c, i) = "."
             frac == Len(c) - dot
         IN  [raised |-> FALSE,
              value  |-> Dec(DigitsToInt(all), IF frac > 0 THEN frac ELSE 0)]

\* a separator policy reading the dot as the decimal point and the comma as grouping
BrazilianClean_CommaGroups(clean_value) == ReplaceChar(clean_value, ",", "")

\* a separator policy reading a lone dot before three digits as grouping
BrazilianClean_DotGroups(clean_value) ==
    IF Contains(clean_value, ",") /\ Contains(clean_value, ".")
    THEN ReplaceChar(ReplaceChar(clean_value, ".", ""), ",", ".")
    ELSE IF Contains(clean_value, ",")
    THEN ReplaceChar(clean_value, ",", ".")
    ELSE IF CountChar(clean_value, ".") = 1 /\ Len(clean_value) >= 4
            /\ Ch(clean_value, Len(clean_value) - 3) = "."
    THEN ReplaceChar(clean_value, ".", "")
    ELSE clean_value

\* the separator policy of lines 608-622, on the cleaned text
BrazilianClean(clean_value) ==
    IF Contains(clean_value, ",") /\ Contains(clean_value, ".")
    THEN ReplaceChar(ReplaceChar(clean_value, ".", ""), ",", ".")
    ELSE IF Contains(clean_value, ",")
    THEN LET comma == CHOOSE i \in 1..Len(clean_value) : Ch(clean_value, i) = ","
         IN  IF CountChar(clean_value, ",") = 1 /\ Len(clean_value) - comma <= 2
             THEN ReplaceChar(clean_value, ",", ".")
             ELSE ReplaceChar(clean_value, ",", "")
    ELSE clean_value

IsNegative(s) == HasParenthesised(s) \/ EndsWith(s, "-") \/ StartsWith(s, "-")

\* lines 624-628: the sign of the text put on the parsed number r
Signed(r, negative) ==
    IF r.raised THEN r
    ELSE [raised |-> FALSE, value |-> IF negative THEN DNeg(r.value) ELSE r.value]

\* lines 600-628 on the stripped text s and its cleaned form
ParseCleaned(s, clean_value) ==
    IF clean_value = "" \/ clean_value \in {"-", ".", ","}
    THEN [raised |-> FALSE, value |-> Zero]
    ELSE Signed(ParseFloat(BrazilianClean(clean_value)), IsNegative(s))

\* the body of the try block, lines 592-628: [raised, value]
ExpenseValueTry(value) ==
    ParseCleaned(Strip(value), KeepChars(Strip(value), Digits \cup {",", "."}))

\* no except clause: the error of float() leaves the function
ExpenseValueExcept_Propagates(r) == r

\* the except clause of lines 629-631
ExpenseValueExcept(r) == IF r.raised THEN [raised |-> FALSE, value |-> Zero] ELSE r

\* _extract_expense_value(value): [raised, value]
extract_expense_value(value) ==
    IF value = "" \/ Strip(value) \in PlaceholderTokens
    THEN [raised |-> FALSE, value |-> Zero]
    ELSE ExpenseValueExcept(ExpenseValueTry(value))

(***************************************************************************)
(* Header and date text normalisation                                      *)
(***************************************************************************)
UpperChars == "ABCDEFGHIJKLMNOPQRSTUVWXYZÁÀÃÂÉÊÍÓÕÔÚÇ"
LowerChars == "abcdefghijklmnopqrstuvwxyzáàãâéêíóõôúç"

Letters == {Ch(LowerChars, i) : i \in 1..26}

IndexIn(s, c) == CHOOSE i \in 1..Len(s) : Ch(s, i) = c

\* str.lower(), on the letters of Portuguese and English
LowerCh(c) ==
    IF \E i \in 1..Len(UpperChars) : Ch(UpperChars, i) = c
    THEN Ch(LowerChars, IndexIn(UpperChars, c)) ELSE c

\* the replacements table of the header normalize functions
AccentFrom == "áàãâéêíóõôúçý"
AccentTo == "aaaaeeioooucy"

\* the replacements table of the date normalize function (its s-cedilla entry is
\* left out: the character is outside the texts of this model)
DateAccentFrom == "áàãâéêíóõôúçýñ"
DateAccentTo == "aaaaeeioooucyn"

Unaccent(c, from, to) ==
    IF \E i \in 1..Len(from) : Ch(from, i) = c THEN Ch(to, IndexIn(from, c)) ELSE c

RECURSIVE MapUnaccentLower(_, _, _)
MapUnaccentLower(s, from, to) ==
    IF s = "" THEN ""
    ELSE Unaccent(LowerCh(Ch(s, 1)), from, to) \o MapUnaccentLower(Rest(s), from, to)

\* normalize of get_monthly_summary_by_columns and get_detailed_monthly_data
normalize(s) == MapUnaccentLower(Strip(s), AccentFrom, AccentTo)

\* normalize of _find_column_by_keywords: no strip
normalize_kw(s) == MapUnaccentLower(s, AccentFrom, AccentTo)

\* normalize of _extract_month_year_from_date
normalize_date(s) == MapUnaccentLower(Strip(s), DateAccentFrom, DateAccentTo)

(***************************************************************************)
(* Regular expressions: a pattern is a sequence of tokens, each a          *)
(* character class repeated min..max times, greedy.  In every pattern of   *)
(* the program a token's class is disjoint from the next token's, so the   *)
(* greedy match is the only match from a given start.                      *)
(***************************************************************************)
Unbounded == 1000

Tok(cls, min, max) == [cls |-> cls, min |-> min, max |-> max]

DateSeps == {"-", "/"} \cup Whitespace

\* the number of characters of s from position i on that are in cls, at most max
RECURSIVE RunLen(_, _, _, _)
RunLen(s, i, cls, max) ==
    IF max = 0 \/ i > Len(s) \/ Ch(s, i) \notin cls THEN 0
    ELSE 1 + RunLen(s, i + 1, cls, max - 1)

\* the start of every token and the end of the match, or << >> for no match at i
RECURSIVE MatchTokens(_, _, _)
MatchTokens(s, i, toks) ==
    IF toks = << >> THEN <<i>>
    ELSE LET t == Head(toks)
             n == RunLen(s, i, t.cls, t.max)
         IN  IF n < t.min THEN << >>
             ELSE LET r == MatchTokens(s, i + n, Tail(toks))
                  IN  IF r = << >> THEN << >> ELSE <<i>> \o r

SetMin(S) == CHOOSE x \in S : \A y \in S : x <= y

\* $ : the end of the text, or just before its final newline
AtEnd(s, i) == i = Len(s) + 1 \/ (i = Len(s) /\ Ch(s, i) = "\n")

\* re.search: the leftmost match, as the token starts and the end; << >> for none
MatchOk(s, r, to_end) == r # << >> /\ (to_end => AtEnd(s, r[Len(r)]))

MatchAtFirst(s, toks, starts) ==
    IF starts = {} THEN << >> ELSE MatchTokens(s, SetMin(starts), toks)

Search(s, toks, from_start, to_end) ==
    MatchAtFirst(s, toks, {i \in (IF from_start THEN {1} ELSE 1..(Len(s) + 1)) :
                              MatchOk(s, MatchTokens(s, i, toks), to_end)})

\* m.group(k) of a match r, the groups being the tokens
Group(s, r, k) == SubSeq(s, r[k], r[k + 1] - 1)

(***************************************************************************)
(* _extract_month_year_from_date                                           *)
(***************************************************************************)
\* month_map.get(k), "" for None
month_map(k) ==
    CASE k \in {"jan", "janeiro", "january"} -> "01"
      [] k \in {"fev", "fevereiro", "feb", "february"} -> "02"
      [] k \in {"mar", "marco", "março", "march"} -> "03"
      [] k \in {"abr", "abril", "apr", "april"} -> "04"
      [] k \in {"mai", "maio", "may"} -> "05"
      [] k \in {"jun", "junho", "june"} -> "06"
      [] k \in {"jul", "julho", "july"} -> "07"
      [] k \in {"ago", "agosto", "aug", "august"} -> "08"
      [] k \in {"set", "setembro", "sep", "sept", "september"} -> "09"
      [] k \in {"out", "outubro", "oct", "october"} -> "10"
      [] k \in {"nov", "novembro", "november"} -> "11"
      [] k \in {"dez", "dezembro", "dec", "december"} -> "12"
      [] OTHER -> ""

\* mon if mon in month_map else mon[:3]
mon_key(mon) == IF month_map(mon) # "" THEN mon ELSE SubSeq(mon, 1, 3)

\* a month group written as matched, without padding
zfill2_Unpadded(s) == s

\* str.zfill(2)
zfill2(s) == IF Len(s) < 2 THEN "0" \o s ELSE s

NameThenYear == <<Tok(Letters, 3, Unbounded), Tok(DateSeps, 1, Unbounded), Tok(Digits, 4, 4)>>
YearThenName == <<Tok(Digits, 4, 4), Tok(DateSeps, 1, Unbounded), Tok(Letters, 3, Unbounded)>>

D12 == Tok(Digits, 1, 2)
D4 == Tok(Digits, 4, 4)
Lit(c) == Tok({c}, 1, 1)

\* date_patterns: the pattern, its anchors, the groups of the year and of the month
date_patterns ==
    << [toks |-> <<D12, Lit("/"), D12, Lit("/"), D4>>, anchored |-> FALSE, year |-> 5, month |-> 3],
       [toks |-> <<D12, Lit("-"), D12, Lit("-"), D4>>, anchored |-> FALSE, year |-> 5, month |-> 3],
       [toks |-> <<D4, Lit("/"), D12, Lit("/"), D12>>, anchored |-> FALSE, year |-> 1, month |-> 3],
       [toks |-> <<D4, Lit("-"), D12, Lit("-"), D12>>, anchored |-> FALSE, year |-> 1, month |-> 3],
       [toks |-> <<D12, Lit("/"), D4>>, anchored |-> TRUE, year |-> 3, month |-> 1],
       [toks |-> <<D12, Lit("-"), D4>>, anchored |-> TRUE, year |-> 3, month |-> 1],
       [toks |-> <<D4, Lit("/"), D12>>, anchored |-> TRUE, year |-> 1, month |-> 3],
       [toks |-> <<D4, Lit("-"), D12>>, anchored |-> TRUE, year |-> 1, month |-> 3] >>

\* re.search(pattern, s) for an entry p of date_patterns
PatternMatch(s, p) == Search(s, p.toks, p.anchored, p.anchored)

MinOrZero(S) == IF S = {} THEN 0 ELSE SetMin(S)

\* the first pattern of date_patterns that matches, 0 for none
FirstDatePattern(s) ==
    MinOrZero({k \in 1..Len(date_patterns) : PatternMatch(s, date_patterns[k]) # << >>})

\* re.findall(r'\d+', s)
RECURSIVE DigitRuns(_)
DigitRuns(s) ==
    IF s = "" THEN << >>
    ELSE LET n == RunLen(s, 1, Digits, Unbounded)
         IN  IF n = 0 THEN DigitRuns(Rest(s))
             ELSE <<SubSeq(s, 1, n)>> \o DigitRuns(SubSeq(s, n + 1, Len(s)))

\* the month-name rule, lines 1184-1203: the key, or "" to go on
\* year-mm for a month number mm, "" for a name that is no month
NameKey(year, mm) == IF mm = "" THEN "" ELSE year \o "-" \o mm

\* the key of the match m of a month-name pattern, by the groups of name and year
NameMatchKey(text_norm, m, name, year) ==
    IF m = << >> THEN ""
    ELSE NameKey(Group(text_norm, m, year), month_map(mon_key(Group(text_norm, m, name))))

MonthNameRule(text_norm) ==
    Or(NameMatchKey(text_norm, Search(text_norm, NameThenYear, FALSE, FALSE), 1, 3),
       NameMatchKey(text_norm, Search(text_norm, YearThenName, FALSE, FALSE), 3, 1))

\* the numeric patterns, lines 1205-1222
PatternKey(s, p, r) == Group(s, r, p.year) \o "-" \o zfill2(Group(s, r, p.month))

NumericDateAt(s, k) ==
    IF k = 0 THEN ""
    ELSE PatternKey(s, date_patterns[k], PatternMatch(s, date_patterns[k]))

NumericDateRule(s) == NumericDateAt(s, FirstDatePattern(s))

\* the digit-run fallback, lines 1224-1230
DigitRunsKey(numbers) ==
    IF Len(numbers) >= 3 /\ Len(numbers[3]) = 4
       /\ 1 <= DigitsToInt(numbers[2]) /\ DigitsToInt(numbers[2]) <= 12
    THEN numbers[3] \o "-" \o zfill2(numbers[2])
    ELSE ""

DigitRunsRule(s) == DigitRunsKey(DigitRuns(s))

\* _extract_month_year_from_date(date_value): the month key, "" for None
extract_month_year_from_date(date_value) ==
    IF date_value = "" THEN ""
    ELSE Or(MonthNameRule(normalize_date(date_value)),
            Or(NumericDateRule(date_value), DigitRunsRule(date_value)))

(***************************************************************************)
(* The sheets, override maps, contract lists and months of the model       *)
(***************************************************************************)
\* the row of a sheet: the cells under the columns; an empty cell is no entry
RowOf(cols, cells) ==
    LET present == SelectSeq([i \in 1..Len(cols) |-> i], LAMBDA i : cells[i] # "")
    IN  [j \in 1..Len(present) |-> [k |-> cols[present[j]], v |-> cells[present[j]]]]

RECURSIVE SeqsUpTo(_, _)
SeqsUpTo(S, n) ==
    IF n = 0 THEN {<< >>}
    ELSE LET P == SeqsUpTo(S, n - 1)
         IN  P \cup {Append(p, x) : p \in {q \in P : Len(q) = n - 1}, x \in S}

Batches(cols, pool) == {[i \in 1..Len(b) |-> RowOf(cols, b[i])] : b \in SeqsUpTo(pool, MaxRows) \ {<< >>}}

ExpensesCols == <<"Tipo", "Empresa", "Data", "Valor Proposta", "Valor do Boleto">>
ExpensesPool ==
    { <<"Setup", "ACME", "10/06/2025", "1.000,00", "900,00">>,
      <<"mensal", "ACME", "20/06/2025", "500,50", "500,50">>,
      <<"Setup", "Beta", "15/07/2025", "(500,00)", "">>,
      <<"", "Beta", "01/08/2025", "-", "0">>,
      <<"Suporte", "", "sem data", "100", "100">>,
      <<"Setup", "Beta", "30/06/2025", "250,25", "250,00">> }

\* the invoice column is named after the note; the date column names the boleto
NotaCols == <<"Data Emissão Boleto", "Valor Proposta", "Valor da Nota (R$)">>
NotaPool ==
    { <<"1/7/2025", "100", "100">>,
      <<"2/8/2025", "50,5", "40">>,
      <<"", "70", "70">> }

\* a paid column whose header holds a date word, beside the invoice column
PagoCols == <<"Data", "Proposta", "Pago no Mês", "Valor do Boleto">>
PagoPool ==
    { <<"05/06/2025", "200", "150", "180">>,
      <<"jul/2025", "300", "300", "1.234">> }

\* no header and no content names a date
NotesCols == <<"Descrição", "Obs">>
NotesPool == { <<"Licença", "ok">>, <<"Suporte", "n/a">> }

\* a single column: no second column for the invoice
SingleCols == <<"Data">>
SinglePool == { <<"10/06/2025">> }

\* a text column ahead of the only amount column, neither named as a value
MemoCols == <<"Data", "Descrição", "Custo">>
MemoPool == { <<"10/06/2025", "Licença", "100">> }

AllBatches ==
    Batches(ExpensesCols, ExpensesPool) \cup Batches(NotaCols, NotaPool)
        \cup Batches(PagoCols, PagoPool) \cup Batches(NotesCols, NotesPool)
        \cup Batches(SingleCols, SinglePool) \cup Batches(MemoCols, MemoPool)

NoOverrides == [data |-> "", proposta |-> "", boleto |-> ""]

OverrideRequests ==
    { NoOverrides,
      [data |-> "", proposta |-> "", boleto |-> "Pago no Mês"],
      [data |-> "Data", proposta |-> "Valor do Boleto", boleto |-> "Valor Proposta"],
      [data |-> " Data ", proposta |-> "Inexistente", boleto |-> "  "] }

Contract(p, v, i, f, t) == [Proposta |-> p, Valor |-> v, Inicio |-> i, Fim |-> f, Tipo |-> t]

ContractLists ==
    { << Contract("P-1", "1.500,00", "01/07/2025", "01/12/2025", "Mensalidade"),
         Contract("P-2", "2.000,00", "2025-08-01", "31-08-2025", "Implantação"),
         Contract("P-3", "300,00", "01/06/2025", "", "Mensalidade"),
         Contract("P-4", "Por Consumo", "01/06/2025", "01/12/2025", "Mensalidade"),
         Contract("P-5", "0,00", "01/06/2025", "01/12/2025", "Mensalidade") >> }

MonthLists ==
    { << >>, <<"2025-07">>, <<"2025-06", "2025-08", "2025-09">>, <<"2025-8", "2025-13">> }

\* the months in which the automatic projection runs
NowMonths == { [y |-> 2025, m |-> 6], [y |-> 2025, m |-> 12] }

(***************************************************************************)
(* The candidate names of the column lookups                               *)
(***************************************************************************)
\* lines 699-703 and 750-756: the flat view; the value lists serve both views
direct_map_date ==
    <<"Data Emissão Boleto", "Data de Emissão Boleto", "Data de Vencimento Boleto",
      "Data Vencimento do Boleto", "Data Pagamento", "Data do Pagamento", "Data", "DT", "Date">>
direct_map_proposta ==
    <<"Valor Proposta", "Valor da Proposta", "Proposta", "Valor da proposta +15,75%">>
direct_map_boleto ==
    <<"Valor do Boleto (R$)", "Valor do Boleto", "Boleto", "Valor da Nota (R$)">>

keywords_date ==
    <<"data", "dt", "date", "emissao", "emissão", "lancamento", "lançamento",
      "competencia", "competência">>
keywords_proposta == <<"proposta", "orcamento", "orçamento", "pedido", "valor proposta">>
keywords_boleto ==
    <<"boleto", "fatura", "duplicata", "nf", "nota", "titulo", "título", "valor boleto">>

\* lines 931-934: the date candidates of the hierarchical view
exact_date ==
    <<"Data de Envio do Boleto", "Data Emissão Boleto", "Data de Vencimento Boleto",
      "Data Vencimento do Boleto", "Data", "Date">>

(***************************************************************************)
(* The normalizers tabulated over the texts of the model: the headers and  *)
(* candidate names for normalize, the cells for the value and the date     *)
(* normalizer.  A table entry is the function's value; the aggregations    *)
(* read the tables instead of normalising the same text again.             *)
(***************************************************************************)
Range(seq) == {seq[i] : i \in 1..Len(seq)}

SheetCols == {ExpensesCols, NotaCols, PagoCols, NotesCols, SingleCols}
SheetPools == {ExpensesPool, NotaPool, PagoPool, NotesPool, SinglePool}

HeaderTexts ==
    UNION {Range(c) : c \in SheetCols \cup {direct_map_date, direct_map_proposta,
                                              direct_map_boleto, keywords_date,
                                              keywords_proposta, keywords_boleto,
                                              exact_date}}

CellTexts ==
    {""} \cup UNION {Range(r) : r \in UNION SheetPools}
         \cup UNION {{c.Valor : c \in Range(cs)} : cs \in ContractLists}

normalize_table == [h \in HeaderTexts |-> normalize(h)]
normalize_kw_table == [h \in HeaderTexts |-> normalize_kw(h)]
expense_value == [t \in CellTexts |-> extract_expense_value(t)]
month_year_of == [t \in CellTexts |-> extract_month_year_from_date(t)]

\* normalize(h) and the keyword form of it, read from the table where tabulated
normalized(h) == IF h \in HeaderTexts THEN normalize_table[h] ELSE normalize(h)
normalized_kw(h) == IF h \in HeaderTexts THEN normalize_kw_table[h] ELSE normalize_kw(h)

(***************************************************************************)
(* Rows and dictionaries                                                   *)
(*                                                                         *)
(* A row is a Python dict: the sequence of its [k, v] entries in insertion *)
(* order.  None is modelled as "" wherever the program only tests the      *)
(* value's truth (not x).                                                  *)
(***************************************************************************)
HasKey(row, h) == \E i \in 1..Len(row) : row[i].k = h

\* row.get(h, '')
RowGet(row, h) ==
    IF HasKey(row, h) THEN row[CHOOSE i \in 1..Len(row) : row[i].k = h].v ELSE ""

\* list(self.data[0].keys())
headers_of(d) == [i \in 1..Len(d[1]) |-> d[1][i].k]

InSeq(seq, x) == \E i \in 1..Len(seq) : seq[i] = x

\* the first element of seq with P, "" for None
FirstWhere(seq, P(_)) ==
    IF \E i \in 1..Len(seq) : P(seq[i])
    THEN seq[SetMin({i \in 1..Len(seq) : P(seq[i])})] ELSE ""

\* d[k] = v on a dict modelled as a function
DictSet(d, k, v) == [x \in DOMAIN d \cup {k} |-> IF x = k THEN v ELSE d[x]]

\* d[k] = e[k] for every key of e
Update(d, e) == [x \in DOMAIN d \cup DOMAIN e |-> IF x \in DOMAIN e THEN e[x] ELSE d[x]]

\* buckets[month] = bucket on an ordered dict of months: i is the month's place, 0 if new
SetMonth(buckets, i, bucket) ==
    IF i = 0 THEN Append(buckets, bucket) ELSE [buckets EXCEPT ![i] = bucket]

\* self.data[:n]
FirstRows(d, n) == SubSeq(d, 1, IF Len(d) < n THEN Len(d) ELSE n)

\* the float a cell gives: self._extract_expense_value(x) or 0
NumericOf(text) == expense_value[text].value

(***************************************************************************)
(* Column lookup helpers                                                   *)
(***************************************************************************)
\* find_by_direct_map and find_exact: candidates in priority order, then headers
RECURSIVE find_by_direct_map(_, _)
find_by_direct_map(headers, candidates) ==
    IF candidates = << >> THEN ""
    ELSE Or(FirstWhere(headers,
                       LAMBDA x : Contains(normalized(x), normalized(Head(candidates)))),
            find_by_direct_map(headers, Tail(candidates)))

\* _find_column_by_keywords: the first header holding any keyword
find_column_by_keywords(headers, keywords) ==
    FirstWhere(headers,
               LAMBDA col : \E k \in 1..Len(keywords) :
                               Contains(normalized_kw(col), normalized_kw(keywords[k])))

SampleRows == 10

\* _column_has_numeric_values: the value normalizer never returns None
column_has_numeric_values(d, col_name) ==
    LET sample        == FirstRows(d, SampleRows)
        total_count   == Cardinality({i \in 1..Len(sample) : HasKey(sample[i], col_name)})
        numeric_count == Cardinality({i \in 1..Len(sample) :
                            /\ HasKey(sample[i], col_name)
                            /\ ~expense_value[RowGet(sample[i], col_name)].raised})
    IN  total_count > 0 /\ 2 * numeric_count > total_count

(***************************************************************************)
(* get_monthly_summary_by_columns: the flat view                           *)
(***************************************************************************)
\* the override of a role, if it is a header (lines 737-740 and 925-928)
OverrideOf(ov, role, headers) == IF InSeq(headers, ov[role]) THEN ov[role] ELSE ""

\* the date fallback of lines 767-778: the first column with date-like content
date_like_column(d, headers) ==
    FirstWhere(headers,
               LAMBDA h : \E i \in 1..Len(FirstRows(d, SampleRows)) :
                             /\ RowGet(d[i], h) # ""
                             /\ month_year_of[RowGet(d[i], h)] # "")

\* lines 758-778: the fallbacks by content, of the invoice column and of the date
\* column, once the proposal column is settled
FlatFallbacks(d, headers, date1, proposta2, boleto1) ==
    [data |-> Or(date1, date_like_column(d, headers)),
     proposta |-> proposta2,
     boleto |-> Or(boleto1,
                   FirstWhere(headers, LAMBDA h : column_has_numeric_values(d, h)
                                                   /\ h # proposta2))]

\* lines 736-778: the columns of the flat view, "" for an unresolved role
FlatColumns(d, ov) ==
    LET headers   == headers_of(d)
        date1     == Or(Or(OverrideOf(ov, "data", headers),
                           find_by_direct_map(headers, direct_map_date)),
                        find_column_by_keywords(headers, keywords_date))
        proposta1 == Or(Or(OverrideOf(ov, "proposta", headers),
                           find_by_direct_map(headers, direct_map_proposta)),
                        find_column_by_keywords(headers, keywords_proposta))
        boleto1   == Or(Or(OverrideOf(ov, "boleto", headers),
                           find_by_direct_map(headers, direct_map_boleto)),
                        find_column_by_keywords(headers, keywords_boleto))
    IN  FlatFallbacks(d, headers, date1,
                      Or(proposta1,
                         FirstWhere(headers, LAMBDA h : column_has_numeric_values(d, h))),
                      boleto1)

\* the difference taken the other way round
diferenca_valor_Reversed(numeric_boleto, numeric_proposta) ==
    DSub(numeric_proposta, numeric_boleto)

\* diferenca_valor of a row, lines 804 and 1008
diferenca_valor(numeric_boleto, numeric_proposta) == DSub(numeric_boleto, numeric_proposta)

MonthIndex(buckets, month) ==
    IF \E i \in 1..Len(buckets) : buckets[i].month = month
    THEN CHOOSE i \in 1..Len(buckets) : buckets[i].month = month ELSE 0

\* a bucket that keeps the amounts of its last row only
FlatAddRow_Overwrites(buckets, month, date_value, numeric_proposta, numeric_boleto) ==
    LET i    == MonthIndex(buckets, month)
        dif  == diferenca_valor(numeric_boleto, numeric_proposta)
        new  == [month |-> month, total_proposta |-> numeric_proposta,
                 total_boleto |-> numeric_boleto, total_diferenca |-> dif, count |-> 1,
                 items |-> <<[data |-> date_value, valor_proposta |-> numeric_proposta,
                              valor_boleto |-> numeric_boleto, diferenca_valor |-> dif]>>]
    IN  IF i = 0 THEN Append(buckets, new) ELSE [buckets EXCEPT ![i] = new]

\* lines 808-827: one row added to the flat buckets.  The percentages
\* (diferenca_percentual of an item, diferenca_percentual_media of a month and of
\* a projected month) are quotients of the amounts kept here and are left out.
FlatAddRow(buckets, month, date_value, numeric_proposta, numeric_boleto) ==
    LET i    == MonthIndex(buckets, month)
        old  == IF i = 0
                THEN [month |-> month, total_proposta |-> Zero, total_boleto |-> Zero,
                      total_diferenca |-> Zero, count |-> 0, items |-> << >>]
                ELSE buckets[i]
        dif  == diferenca_valor(numeric_boleto, numeric_proposta)
        new  == [month |-> month,
                 total_proposta |-> DAdd(old.total_proposta, numeric_proposta),
                 total_boleto |-> DAdd(old.total_boleto, numeric_boleto),
                 total_diferenca |-> DAdd(old.total_diferenca, dif),
                 count |-> old.count + 1,
                 items |-> Append(old.items,
                                  [data |-> date_value, valor_proposta |-> numeric_proposta,
                                   valor_boleto |-> numeric_boleto, diferenca_valor |-> dif])]
    IN  IF i = 0 THEN Append(buckets, new) ELSE [buckets EXCEPT ![i] = new]

\* a loop that also passes over a row whose proposal or invoice cell is empty
RECURSIVE FlatLoop_SkipsValueless(_, _, _, _)
FlatLoop_SkipsValueless(d, i, cols, buckets) ==
    IF i > Len(d) THEN buckets
    ELSE LET date_value == RowGet(d[i], cols.data)
             month_year == month_year_of[date_value]
         IN  IF \/ date_value = "" \/ month_year = ""
                \/ RowGet(d[i], cols.proposta) = "" \/ RowGet(d[i], cols.boleto) = ""
             THEN FlatLoop_SkipsValueless(d, i + 1, cols, buckets)
             ELSE FlatLoop_SkipsValueless(d, i + 1, cols,
                           FlatAddRow(buckets, month_year, date_value,
                                      NumericOf(RowGet(d[i], cols.proposta)),
                                      NumericOf(RowGet(d[i], cols.boleto))))

\* lines 784-827: the loop over the rows
RECURSIVE FlatLoop(_, _, _, _)
FlatLoop(d, i, cols, buckets) ==
    IF i > Len(d) THEN buckets
    ELSE LET date_value == RowGet(d[i], cols.data)
             month_year == month_year_of[date_value]
         IN  IF date_value = "" \/ month_year = ""
             THEN FlatLoop(d, i + 1, cols, buckets)
             ELSE FlatLoop(d, i + 1, cols,
                           FlatAddRow(buckets, month_year, date_value,
                                      NumericOf(RowGet(d[i], cols.proposta)),
                                      NumericOf(RowGet(d[i], cols.boleto))))

\* the order of str on month keys: digits and "-"
KeyChars == "-0123456789"

RECURSIVE StrLess(_, _)
StrLess(a, b) ==
    IF b = "" THEN FALSE
    ELSE IF a = "" THEN TRUE
    ELSE IF Ch(a, 1) = Ch(b, 1) THEN StrLess(Rest(a), Rest(b))
    ELSE IndexIn(KeyChars, Ch(a, 1)) < IndexIn(KeyChars, Ch(b, 1))

\* dict(sorted(d.items())) on buckets with distinct month keys
RECURSIVE SortByMonth(_)
SortByMonth(buckets) ==
    IF buckets = << >> THEN << >>
    ELSE LET i == CHOOSE i \in 1..Len(buckets) :
                     \A j \in 1..Len(buckets) : j # i => StrLess(buckets[i].month, buckets[j].month)
         IN  <<buckets[i]>> \o
             SortByMonth([j \in 1..(Len(buckets) - 1) |->
                             IF j < i THEN buckets[j] ELSE buckets[j + 1]])

RECURSIVE DSum(_, _)
DSum(seq, field) ==
    IF seq = << >> THEN Zero ELSE DAdd(DSum(Tail(seq), field), Head(seq)[field])

\* grand totals that pass over the projected months
GrandTotals_RealOnly(buckets) ==
    [total_proposta_geral |->
         DSum(SelectSeq(buckets, LAMBDA b : "is_projection" \notin DOMAIN b), "total_proposta"),
     total_boleto_geral |->
         DSum(SelectSeq(buckets, LAMBDA b : "is_projection" \notin DOMAIN b), "total_boleto"),
     total_diferenca_geral |->
         DSum(SelectSeq(buckets, LAMBDA b : "is_projection" \notin DOMAIN b), "total_diferenca"),
     meses_processados |-> Len(SelectSeq(buckets, LAMBDA b : "is_projection" \notin DOMAIN b))]

\* lines 841-846 and 1598-1603: the grand totals of a sequence of buckets
GrandTotals(buckets) ==
    [total_proposta_geral |-> DSum(buckets, "total_proposta"),
     total_boleto_geral |-> DSum(buckets, "total_boleto"),
     total_diferenca_geral |-> DSum(buckets, "total_diferenca"),
     meses_processados |-> Len(buckets)]

\* lines 839-854: the dict returned for the buckets of the loop
FlatResult(d, ov, cols, buckets) ==
    Update([resumo_mensal |-> SortByMonth(buckets),
            columns_used |-> [data |-> cols.data, proposta |-> cols.proposta,
                              boleto |-> cols.boleto, headers |-> headers_of(d),
                              overrides |-> ov]],
           GrandTotals(buckets))

\* a flat view that hands back an empty summary beside the error
FlatSummary_Partial(d, ov, cols) ==
    IF cols.data = "" \/ cols.proposta = "" \/ cols.boleto = ""
    THEN [error |-> "Não foi possível identificar colunas de Data/Proposta/Boleto pelo cabeçalho",
          resumo_mensal |-> << >>, meses_processados |-> 0]
    ELSE FlatResult(d, ov, cols, FlatLoop(d, 1, cols, << >>))

\* lines 781-854: the error of an unresolved role, or the summary over the columns
FlatSummary(d, ov, cols) ==
    IF cols.data = "" \/ cols.proposta = "" \/ cols.boleto = ""
    THEN [error |-> "Não foi possível identificar colunas de Data/Proposta/Boleto pelo cabeçalho"]
    ELSE FlatResult(d, ov, cols, FlatLoop(d, 1, cols, << >>))

\* get_monthly_summary_by_columns(): the dict it returns
get_monthly_summary_by_columns(d, ov) ==
    IF d = << >> THEN [error |-> "Nenhum dado disponível"]
    ELSE FlatSummary(d, ov, FlatColumns(d, ov))

(***************************************************************************)
(* get_detailed_monthly_data: the hierarchical view                        *)
(***************************************************************************)
exclude_date_words ==
    <<"data", "emissao", "emissão", "envio", "vencimento", "prazo", "dia", "mes", "mês", "ano">>

include_boleto == <<"boleto", "nota", "r$", "valor do boleto", "valor da nota">>
include_proposta == <<"proposta", "valor", "r$", "valor proposta", "valor da proposta">>

NumericSample == 50

\* any(w in normalize(h) for w in words); the words are used as written
HasWord(h, words) == \E k \in 1..Len(words) : Contains(normalized(h), words[k])

\* _score_header, lines 895-913
score_header(d, h, include_keywords, exclude_keywords) ==
    IF HasWord(h, exclude_keywords) \/ ~HasWord(h, include_keywords) THEN 0 - 1
    ELSE LET sample == FirstRows(d, NumericSample)
         IN  IF Len(sample) = 0 THEN 0 - 1
             ELSE Cardinality({i \in 1..Len(sample) : NumericOf(RowGet(sample[i], h)).m # 0})

\* select_best_numeric, lines 894-922: the first header of the highest score, if above 0
select_best_numeric(d, headers, include_keywords, exclude_keywords) ==
    LET score(i) == score_header(d, headers[i], include_keywords, exclude_keywords)
        best == {i \in 1..Len(headers) :
                    /\ score(i) > 0
                    /\ \A j \in 1..Len(headers) : score(j) <= score(i)}
    IN  IF best = {} THEN "" ELSE headers[SetMin(best)]

\* lines 948-953: a value column whose header holds a date word is dropped
DropDateColumn(col) == IF col # "" /\ HasWord(col, exclude_date_words) THEN "" ELSE col

\* lines 924-970: the columns of the hierarchical view, "" for an unresolved role
DetailedColumns(d, ov) ==
    LET headers   == headers_of(d)
        data1     == Or(OverrideOf(ov, "data", headers),
                        Or(find_by_direct_map(headers, exact_date),
                           find_column_by_keywords(headers, <<"data", "date">>)))
        proposta1 == Or(OverrideOf(ov, "proposta", headers),
                        Or(find_by_direct_map(headers, direct_map_proposta),
                           find_column_by_keywords(headers, <<"proposta">>)))
        boleto1   == Or(OverrideOf(ov, "boleto", headers),
                        Or(find_by_direct_map(headers, direct_map_boleto),
                           find_column_by_keywords(headers, <<"boleto">>)))
        boleto2   == Or(DropDateColumn(boleto1),
                        select_best_numeric(d, headers, include_boleto, exclude_date_words))
        proposta2 == Or(DropDateColumn(proposta1),
                        select_best_numeric(d, headers, include_proposta, exclude_date_words))
    IN  [data |-> data1, proposta |-> proposta2, boleto |-> boleto2,
         tipo |-> find_column_by_keywords(headers, <<"tipo", "categoria", "category", "type">>),
         empresa |-> find_column_by_keywords(headers, <<"empresa", "company", "cliente">>),
         col_g |-> find_column_by_keywords(headers, <<"g">>),
         col_h |-> find_column_by_keywords(headers, <<"h">>),
         col_j |-> find_column_by_keywords(headers, <<"j">>)]

RECURSIVE LowerText(_)
LowerText(s) == IF s = "" THEN "" ELSE LowerCh(Ch(s, 1)) \o LowerText(Rest(s))

\* lines 997-1003
tipo_normalized(tipo_value) ==
    IF LowerText(tipo_value) \in {"setup", "set up", "set-up", "configuração", "config"}
    THEN "Setup"
    ELSE IF LowerText(tipo_value) \in {"mensalidade", "mensal", "monthly"}
    THEN "Mensalidade"
    ELSE IF tipo_value # "" THEN tipo_value ELSE "Outros"

ZeroTotals ==
    [total_proposta |-> Zero, total_boleto |-> Zero, total_diferenca |-> Zero,
     total_registros |-> 0]

\* lines 1052-1065: the four totals of one level, one record added
AddToTotals(t, numeric_proposta, numeric_boleto, dif) ==
    [total_proposta |-> DAdd(t.total_proposta, numeric_proposta),
     total_boleto |-> DAdd(t.total_boleto, numeric_boleto),
     total_diferenca |-> DAdd(t.total_diferenca, dif),
     total_registros |-> t.total_registros + 1]

\* d.get(k, default) on a dict modelled as a function
GetOr(f, k, default) == IF k \in DOMAIN f THEN f[k] ELSE default

\* a hierarchy whose category level keeps no running totals
DetailedAddRow_TipoUntotalled(months, month, tipo, empresa, record) ==
    LET i      == MonthIndex(months, month)
        oldM   == IF i = 0 THEN [month |-> month, totals |-> ZeroTotals, tipos |-> << >>]
                  ELSE months[i]
        oldT   == GetOr(oldM.tipos, tipo, [totals |-> ZeroTotals, empresas |-> << >>])
        oldE   == GetOr(oldT.empresas, empresa, [totals |-> ZeroTotals, propostas |-> << >>])
        add(t) == AddToTotals(t, record.valor_proposta, record.valor_boleto, record.diferenca)
        newE   == [totals |-> add(oldE.totals), propostas |-> Append(oldE.propostas, record)]
        newT   == [totals |-> oldT.totals, empresas |-> DictSet(oldT.empresas, empresa, newE)]
        newM   == [month |-> month, totals |-> add(oldM.totals),
                   tipos |-> DictSet(oldM.tipos, tipo, newT)]
    IN  IF i = 0 THEN Append(months, newM) ELSE [months EXCEPT ![i] = newM]

\* a hierarchy that files every record under the first month it met
DetailedAddRow_FirstMonth(months, month, tipo, empresa, record) ==
    LET oldM   == IF months = << >>
                  THEN [month |-> month, totals |-> ZeroTotals, tipos |-> << >>]
                  ELSE months[1]
        oldT   == GetOr(oldM.tipos, tipo, [totals |-> ZeroTotals, empresas |-> << >>])
        oldE   == GetOr(oldT.empresas, empresa, [totals |-> ZeroTotals, propostas |-> << >>])
        add(t) == AddToTotals(t, record.valor_proposta, record.valor_boleto, record.diferenca)
        newE   == [totals |-> add(oldE.totals), propostas |-> Append(oldE.propostas, record)]
        newT   == [totals |-> add(oldT.totals), empresas |-> DictSet(oldT.empresas, empresa, newE)]
        newM   == [month |-> oldM.month, totals |-> add(oldM.totals),
                   tipos |-> DictSet(oldM.tipos, tipo, newT)]
    IN  IF months = << >> THEN <<newM>> ELSE [months EXCEPT ![1] = newM]

\* lines 1010-1066: one row added to the hierarchy.  A month is
\* [month, totals, tipos]; tipos maps a tipo to [totals, empresas]; empresas maps
\* an empresa to [totals, propostas].
DetailedAddRow(months, month, tipo, empresa, record) ==
    LET i      == MonthIndex(months, month)
        oldM   == IF i = 0 THEN [month |-> month, totals |-> ZeroTotals, tipos |-> << >>]
                  ELSE months[i]
        oldT   == GetOr(oldM.tipos, tipo, [totals |-> ZeroTotals, empresas |-> << >>])
        oldE   == GetOr(oldT.empresas, empresa, [totals |-> ZeroTotals, propostas |-> << >>])
        add(t) == AddToTotals(t, record.valor_proposta, record.valor_boleto, record.diferenca)
        newE   == [totals |-> add(oldE.totals), propostas |-> Append(oldE.propostas, record)]
        newT   == [totals |-> add(oldT.totals), empresas |-> DictSet(oldT.empresas, empresa, newE)]
        newM   == [month |-> month, totals |-> add(oldM.totals),
                   tipos |-> DictSet(oldM.tipos, tipo, newT)]
    IN  IF i = 0 THEN Append(months, newM) ELSE [months EXCEPT ![i] = newM]

\* row.get(col, '').strip() if col else ''
StrippedCell(row, col) == IF col # "" THEN Strip(RowGet(row, col)) ELSE ""

\* lines 976-1066: the loop over the rows
RECURSIVE DetailedLoop(_, _, _, _)
DetailedLoop(d, i, cols, months) ==
    IF i > Len(d) THEN months
    ELSE LET row        == d[i]
             data_value == StrippedCell(row, cols.data)
             month_year == month_year_of[data_value]
             empresa    == StrippedCell(row, cols.empresa)
             numeric_proposta == NumericOf(RowGet(row, cols.proposta))
             numeric_boleto   == NumericOf(RowGet(row, cols.boleto))
             record == [empresa |-> empresa,
                        col_g |-> StrippedCell(row, cols.col_g),
                        col_h |-> StrippedCell(row, cols.col_h),
                        data |-> data_value,
                        valor_proposta |-> numeric_proposta,
                        col_j |-> StrippedCell(row, cols.col_j),
                        valor_boleto |-> numeric_boleto,
                        diferenca |-> diferenca_valor(numeric_boleto, numeric_proposta),
                        row_index |-> i - 1]
         IN  IF data_value = "" \/ month_year = ""
             THEN DetailedLoop(d, i + 1, cols, months)
             ELSE DetailedLoop(d, i + 1, cols,
                               DetailedAddRow(months, month_year,
                                              tipo_normalized(StrippedCell(row, cols.tipo)),
                                              empresa, record))

\* lines 973-1079: the error of an unresolved role, or the hierarchy over the columns
DetailedResult(d, cols) ==
    IF cols.data = "" \/ cols.proposta = "" \/ cols.boleto = ""
    THEN [error |-> "Não foi possível identificar colunas essenciais para dados detalhados"]
    ELSE [detailed_data |-> SortByMonth(DetailedLoop(d, 1, cols, << >>)),
          success |-> TRUE]

\* get_detailed_monthly_data(): the dict it returns
get_detailed_monthly_data(d, ov) ==
    IF d = << >> THEN [error |-> "Nenhum dado disponível"]
    ELSE DetailedResult(d, DetailedColumns(d, ov))

(***************************************************************************)
(* Contract projections                                                    *)
(*                                                                         *)
(* A contract is the row of the contracts sheet, read under the five       *)
(* headers the program uses: [Proposta, Valor, Inicio, Fim, Tipo] for      *)
(* 'Proposta', 'Valor da Parcela', '1ª Data Vencimento', 'Ult Data Venc'   *)
(* and 'Tipo'.  A datetime is [y, m, d]; NoDate stands for None.           *)
(***************************************************************************)
NoDate == [y |-> 0, m |-> 0, d |-> 0]

IsLeap(y) == (y % 4 = 0 /\ y % 100 # 0) \/ y % 400 = 0

DaysInMonth(y, m) ==
    IF m = 2 THEN (IF IsLeap(y) THEN 29 ELSE 28)
    ELSE IF m \in {4, 6, 9, 11} THEN 30 ELSE 31

\* the directives %d and %m take one or two digits and no zero value
ValidDate(y, m, d) ==
    /\ 1 <= y /\ 1 <= m /\ m <= 12
    /\ 1 <= d /\ d <= DaysInMonth(y, m)

\* datetime.strptime(text, fmt): the formats are three digit groups around one
\* separator; NoDate for ValueError
FormatTokens(sep, year) ==
    [k \in 1..5 |-> IF k \in {2, 4} THEN Lit(sep) ELSE IF k = year THEN D4 ELSE D12]

DateOf(y, m, d) == IF ValidDate(y, m, d) THEN [y |-> y, m |-> m, d |-> d] ELSE NoDate

\* the date of the match r, which has to take the whole text
MatchedDate(text, r, year, month, day) ==
    IF r = << >> \/ r[6] # Len(text) + 1 THEN NoDate
    ELSE DateOf(DigitsToInt(Group(text, r, year)), DigitsToInt(Group(text, r, month)),
                DigitsToInt(Group(text, r, day)))

strptime(text, sep, year, month, day) ==
    MatchedDate(text, Search(text, FormatTokens(sep, year), TRUE, FALSE), year, month, day)

\* the first format that parses
OrDate(a, b) == IF a # NoDate THEN a ELSE b

\* _parse_contract_date: '%d/%m/%Y', '%Y-%m-%d', '%d-%m-%Y', '%m/%d/%Y'
parse_contract_date(date_str) ==
    IF date_str = "" THEN NoDate
    ELSE OrDate(strptime(date_str, "/", 5, 3, 1),
                OrDate(strptime(date_str, "-", 1, 3, 5),
                       OrDate(strptime(date_str, "-", 5, 3, 1),
                              strptime(date_str, "/", 5, 1, 3))))

DateLess(a, b) ==
    \/ a.y < b.y
    \/ a.y = b.y /\ a.m < b.m
    \/ a.y = b.y /\ a.m = b.m /\ a.d < b.d

\* datetime.strptime(target_month + '-01', '%Y-%m-%d')
target_dt(target_month) == strptime(target_month \o "-01", "-", 1, 3, 5)

DigitChars == "0123456789"

\* strftime of a number on width digits
RECURSIVE Padded(_, _)
Padded(n, width) ==
    IF width = 0 THEN "" ELSE Padded(n \div 10, width - 1) \o Ch(DigitChars, (n % 10) + 1)

FutureMonths == 12

\* (current_date + relativedelta(months=i)).strftime('%Y-%m'), i = 1..12;
\* now is [y, m], the month of datetime.now()
future_months(now) ==
    [i \in 1..FutureMonths |->
        LET k == (now.m - 1) + i
        IN  Padded(now.y + (k \div 12), 4) \o "-" \o Padded((k % 12) + 1, 2)]

\* the two date parsers tabulated over the contract dates and the target
\* months of the model
ContractDateTexts == UNION {UNION {{c.Inicio, c.Fim} : c \in Range(cs)} : cs \in ContractLists}
TargetMonths ==
    UNION {Range(ms) : ms \in MonthLists \cup {future_months(now) : now \in NowMonths}}
contract_date == [t \in ContractDateTexts |-> parse_contract_date(t)]
target_date == [m \in TargetMonths |-> target_dt(m)]

\* lines 1430-1446: the contract has its five fields and a nonzero value
ContractUsable(contract) ==
    /\ contract.Proposta # "" /\ contract.Valor # "" /\ contract.Inicio # ""
    /\ contract.Fim # "" /\ contract.Tipo # ""
    /\ NumericOf(contract.Valor) # Zero

\* line 1451 raises for a usable contract when the target month is no date
ProjectionRaises(contract, target_month) ==
    ContractUsable(contract) /\ target_date[target_month] = NoDate

\* a period that leaves its two end days out
Within_Exclusive(start_dt, target, end_dt) ==
    /\ target # NoDate /\ start_dt # NoDate /\ end_dt # NoDate
    /\ DateLess(start_dt, target) /\ DateLess(target, end_dt)

\* lines 1453-1458: both dates parse and the month's first day is within them
Within(start_dt, target, end_dt) ==
    /\ target # NoDate /\ start_dt # NoDate /\ end_dt # NoDate
    /\ ~DateLess(target, start_dt) /\ ~DateLess(end_dt, target)

ContractCovers(contract, target_month) ==
    Within(contract_date[contract.Inicio], target_date[target_month],
           contract_date[contract.Fim])

\* type_mapping.get(contract_type, contract_type)
type_mapping(contract_type) ==
    IF contract_type = "Implantação" THEN "Setup" ELSE contract_type

\* _calculate_contract_projection: << >> for None, else the projection in a tuple
calculate_contract_projection(contract, target_month) ==
    IF ContractUsable(contract) /\ ContractCovers(contract, target_month)
    THEN << [proposta |-> contract.Proposta, valor |-> NumericOf(contract.Valor),
             tipo |-> type_mapping(contract.Tipo), data_inicio |-> contract.Inicio,
             data_fim |-> contract.Fim, is_projection |-> TRUE] >>
    ELSE << >>

\* lines 1404-1409: the totals that count as real data
has_valid_data(total_proposta, total_boleto) == total_proposta.m > 0 \/ total_boleto.m > 0

\* monthly_data.get('resumo_mensal', {})
ResumoOf(monthly_data) ==
    IF "resumo_mensal" \in DOMAIN monthly_data THEN monthly_data.resumo_mensal ELSE << >>

\* _check_existing_expense_data(target_month); monthly_data is the value of
\* self.get_monthly_summary_by_columns() of line 1385, which every call computes
\* anew on the unchanged extractor
check_existing_expense_data(monthly_data, target_month) ==
    LET resumo == ResumoOf(monthly_data)
        i == MonthIndex(resumo, target_month)
    IN  i # 0 /\ has_valid_data(resumo[i].total_proposta, resumo[i].total_boleto)

RECURSIVE FlattenSeq(_)
FlattenSeq(ss) == IF ss = << >> THEN << >> ELSE Head(ss) \o FlattenSeq(Tail(ss))

\* the projections of one month over the contracts, lines 1366-1369
month_projections(contracts, target_month) ==
    FlattenSeq([k \in 1..Len(contracts) |->
                   calculate_contract_projection(contracts[k], target_month)])

\* generate_projections(target_months): the dict month -> projections, in
\* insertion order, as a sequence of [month, projections]
\* lines 1362-1372: one month of the loop, on the projections of the months before
AddProjections(before, monthly_data, target, projs) ==
    IF check_existing_expense_data(monthly_data, target) \/ projs = << >> THEN before
    ELSE SetMonth(before, MonthIndex(before, target), [month |-> target, projections |-> projs])

RECURSIVE generate_projections(_, _, _)
generate_projections(monthly_data, contracts, target_months) ==
    IF target_months = << >> THEN << >>
    ELSE AddProjections(generate_projections(monthly_data, contracts,
                                             SubSeq(target_months, 1, Len(target_months) - 1)),
                        monthly_data, target_months[Len(target_months)],
                        month_projections(contracts, target_months[Len(target_months)]))

\* lines 1575-1586
projection_item(month, proj) ==
    [data |-> month \o "-01", valor_proposta |-> proj.valor, valor_boleto |-> proj.valor,
     diferenca_valor |-> Zero, proposta |-> proj.proposta, tipo |-> proj.tipo,
     is_projection |-> TRUE]

\* a bucket that totals the first projection of the month only
projection_bucket_FirstOnly(month, projs) ==
    [month |-> month,
     total_proposta |-> projs[1].valor,
     total_boleto |-> projs[1].valor,
     total_diferenca |-> Zero,
     count |-> Len(projs),
     items |-> [k \in 1..Len(projs) |-> projection_item(month, projs[k])],
     is_projection |-> TRUE]

\* lines 1570-1596: the bucket of a projected month
projection_bucket(month, projs) ==
    LET total_proposta == DSum(projs, "valor")
        total_boleto   == total_proposta
    IN  [month |-> month,
         total_proposta |-> total_proposta,
         total_boleto |-> total_boleto,
         total_diferenca |-> DSub(total_boleto, total_proposta),
         count |-> Len(projs),
         items |-> [k \in 1..Len(projs) |-> projection_item(month, projs[k])],
         is_projection |-> TRUE]

\* combined_data['resumo_mensal'][month] = bucket, over all projected months
RECURSIVE MergeProjections(_, _)
MergeProjections(resumo, projections) ==
    IF projections = << >> THEN resumo
    ELSE MergeProjections(SetMonth(resumo, MonthIndex(resumo, Head(projections).month),
                                   projection_bucket(Head(projections).month,
                                                     Head(projections).projections)),
                          Tail(projections))

\* [month for month in months if not self._check_existing_expense_data(month)]
missing_months(monthly_data, months) ==
    SelectSeq(months, LAMBDA month : ~check_existing_expense_data(monthly_data, month))

\* lines 1568-1603: the projected months and the grand totals over all months
\* written into combined_data, the copy of real_data
WithMonths(real_data, all_months) ==
    Update(DictSet(real_data, "resumo_mensal", all_months), GrandTotals(all_months))

\* lines 1548-1603, past the filter of the months that have real data
ProjectInto(real_data, contracts, projection_months, filtered) ==
    IF projection_months = << >> \/ filtered = << >> THEN real_data
    ELSE WithMonths(real_data,
                    MergeProjections(ResumoOf(real_data),
                                     generate_projections(real_data, contracts, filtered)))

\* get_monthly_data_with_projections(projection_months): the dict it returns;
\* real_data is the value of self.get_monthly_summary_by_columns() of line 1543
get_monthly_data_with_projections(real_data, contracts, projection_months) ==
    ProjectInto(real_data, contracts, projection_months,
                missing_months(real_data, projection_months))

\* the message _calculate_contract_projection leaves in last_error, lines 1472-1475,
\* with the text of the ValueError of strptime for a target that matches no date
ProjectionError(target_month) ==
    "Erro ao calcular projeção para contrato: time data '" \o target_month
        \o "-01' does not match format '%Y-%m-%d'"

\* last_error after get_monthly_data_with_projections(projection_months): the
\* message of the last month, in the order of the loop, on which a contract raises
LastMessage(raising, before) ==
    IF raising = << >> THEN before ELSE ProjectionError(raising[Len(raising)])

last_error_after_projections(real_data, contracts, projection_months, before) ==
    LastMessage(SelectSeq(missing_months(real_data, projection_months),
                          LAMBDA month : \E k \in 1..Len(contracts) :
                                            ProjectionRaises(contracts[k], month)),
                before)

\* get_monthly_data_with_auto_projections(), run in the month now; real_data is
\* the value of self.get_monthly_summary_by_columns() of line 1503
get_monthly_data_with_auto_projections(real_data, contracts, now) ==
    LET missing_future_months == missing_months(real_data, future_months(now))
    IN  IF missing_future_months = << >> THEN real_data
        ELSE get_monthly_data_with_projections(real_data, contracts, missing_future_months)

(***************************************************************************)
(* The value normalizer applied to bounded texts                           *)
(***************************************************************************)
ValueAlphabet == {"1", "5", "0", ",", ".", "-", "(", ")", " "}

RECURSIVE TextsUpTo(_, _)
TextsUpTo(alphabet, n) ==
    IF n = 0 THEN {""}
    ELSE LET P == TextsUpTo(alphabet, n - 1)
         IN  P \cup {p \o c : p \in {q \in P : Len(q) = n - 1}, c \in alphabet}

ValueExamples ==
    {"3.916,29", "123,45", "(500,00)", "1.234", "N/A", "n/a", "Por Consumo",
     "1.234.567", "R$ 1.000,50", "100 (pago)", "500,00-", "-500,00", "abc",
     "1,234", "1,2,3", "12.5", " - ", "(1.234)", "-1.234", "2.000", "1.2.3,4"}

\* texts of the shape a.b,c
BrThousands == {"1", "3", "12"}
BrHundreds == {"000", "916", "050"}
BrCents == {"5", "29", "00", "07"}
BrTexts ==
    {a \o "." \o b \o "," \o c : a \in BrThousands, b \in BrHundreds, c \in BrCents}

\* texts of the shape a,c  (a,c)  a.b
CommaTexts == {a \o "," \o c : a \in BrThousands, c \in BrCents}
ParenTexts == {"(" \o t \o ")" : t \in CommaTexts}
DotFractions == BrHundreds \cup {"234", "5", "25"}
DotTexts == {a \o "." \o b : a \in BrThousands, b \in DotFractions}

ValueTexts ==
    TextsUpTo(ValueAlphabet, MaxTextLen) \cup ValueExamples \cup BrTexts
        \cup CommaTexts \cup ParenTexts \cup DotTexts

NotCalled == [op |-> "none"]


InitValue ==
    /\ data = << >>
    /\ column_overrides = NoOverrides
    /\ contracts_data = << >>
    /\ last_error = ""
    /\ arg \in ValueTexts
    /\ ret = NotCalled
    /\ FetchIdle

ExtractExpenseValue ==
    /\ ret = NotCalled
    /\ ret' = [op |-> "_extract_expense_value", out |-> extract_expense_value(arg)]
    /\ UNCHANGED <<data, column_overrides, contracts_data, last_error, arg>>
    /\ UNCHANGED FetchState

NextValue == ExtractExpenseValue

SpecValue == InitValue /\ [][NextValue]_vars

ValueReturned == ret.op = "_extract_expense_value"

\* the number a.b,c read the Brazilian way, from the digits' values
BrValue(a, b, c) ==
    Dec((DigitsToInt(a) * 10^Len(b) + DigitsToInt(b)) * 10^Len(c) + DigitsToInt(c), Len(c))

\* the number a.c with c the fraction
FracValue(a, c) == Dec(DigitsToInt(a) * 10^Len(c) + DigitsToInt(c), Len(c))

(***************************************************************************)
(* C8: _extract_expense_value is total: whatever the text, it returns a    *)
(* number and raises nothing; the number is 0 for empty text, for the      *)
(* placeholder tokens, for text without a digit and for text with several  *)
(* dots and no comma (which float() rejects after the cleanup).            *)
(***************************************************************************)
C8_Total ==
    ValueReturned =>
        /\ ~ret.out.raised
        /\ ret.out.value.m \in Int /\ ret.out.value.e \in Nat
        /\ (arg = "" \/ Strip(arg) \in PlaceholderTokens => ret.out.value = Zero)
        /\ (KeepChars(arg, Digits) = "" => ret.out.value = Zero)
        /\ (CountChar(arg, ".") > 1 /\ ~Contains(arg, ",") => ret.out.value = Zero)

C8_Witness ==
    /\ ValueReturned /\ arg = "1.234.567"
    /\ ret.out = [raised |-> FALSE, value |-> Zero]

(***************************************************************************)
(* C9: the Brazilian-format policy: a.b,c is read with the dots removed    *)
(* and the comma as decimal point ("3.916,29" is 3916.29), a,c with at     *)
(* most two digits c has the comma as decimal point ("123,45" is 123.45),  *)
(* and an amount in parentheses is negated ("(500,00)" is -500.0).         *)
(***************************************************************************)
C9_BrazilianPolicy ==
    ValueReturned =>
        /\ (arg = "3.916,29" => ret.out.value = Dec(391629, 2))
        /\ (arg = "123,45" => ret.out.value = Dec(12345, 2))
        /\ (arg = "(500,00)" => ret.out.value = Dec(0 - 500, 0))
        /\ \A a \in BrThousands, b \in BrHundreds, c \in BrCents :
              arg = a \o "." \o b \o "," \o c => ret.out.value = BrValue(a, b, c)
        /\ \A a \in BrThousands, c \in BrCents :
              /\ arg = a \o "," \o c => ret.out.value = FracValue(a, c)
              /\ arg = "(" \o a \o "," \o c \o ")" => ret.out.value = DNeg(FracValue(a, c))

C9_Witness ==
    /\ ValueReturned /\ arg = "3.916,29"
    /\ ret.out.value = [m |-> 391629, e |-> 2]

(***************************************************************************)
(* C10 as claimed: text with only a dot followed by more than two digits   *)
(* is read as thousands grouping, "1.234" giving 1234.                     *)
(***************************************************************************)
C10_DotIsGrouping ==
    ValueReturned /\ arg = "1.234" => ret.out.value = Dec(1234, 0)

(***************************************************************************)
(* C10 amended: text whose only separator is one dot is left as it is, so  *)
(* the dot is the decimal point whatever the number of digits after it:    *)
(* "1.234" gives 1.234.                                                    *)
(***************************************************************************)
C10_DotIsDecimal ==
    ValueReturned =>
        /\ (arg = "1.234" => ret.out.value = [m |-> 1234, e |-> 3])
        /\ \A a \in BrThousands, b \in DotFractions :
              arg = a \o "." \o b => ret.out.value = FracValue(a, b)

C10_Witness ==
    /\ ValueReturned /\ arg = "1.234"
    /\ ret.out.value = [m |-> 1234, e |-> 3]

(***************************************************************************)
(* The date normalizer applied to dates in the formats it names            *)
(***************************************************************************)
DateDays == {"1", "5", "05", "15", "31"}
DateMonths ==
    {"1", "2", "3", "4", "5", "6", "7", "8", "9", "01", "02", "03", "04", "05", "06",
     "07", "08", "09", "10", "11", "12"}
DateYears == {"1999", "2025"}

\* the names of the twelve months, in Portuguese and English, as people write them
DateMonthNames ==
    << {"jan", "Jan", "janeiro", "January"}, {"fev", "Fev", "fevereiro", "feb", "february"},
       {"mar", "março", "Março", "MARÇO", "marco", "march"}, {"abr", "abril", "apr", "April"},
       {"mai", "maio", "may", "May"}, {"jun", "junho", "Junho", "june"},
       {"jul", "Jul", "JUL", "julho", "july"}, {"ago", "agosto", "aug", "August"},
       {"set", "setembro", "sep", "sept", "September"}, {"out", "outubro", "oct", "october"},
       {"nov", "novembro", "Nov", "november"}, {"dez", "dezembro", "dec", "December"} >>

DateNameSeps == {"/", "-", " "}

\* d/m/yyyy, d-m-yyyy, yyyy/m/d, yyyy-m-d
DayDateTexts ==
    UNION {{d \o "/" \o m \o "/" \o y, d \o "-" \o m \o "-" \o y,
            y \o "/" \o m \o "/" \o d, y \o "-" \o m \o "-" \o d} :
              d \in DateDays, m \in DateMonths, y \in DateYears}

\* m/yyyy, m-yyyy, yyyy/m, yyyy-m
MonthDateTexts ==
    UNION {{m \o "/" \o y, m \o "-" \o y, y \o "/" \o m, y \o "-" \o m} :
              m \in DateMonths, y \in DateYears}

\* name and year, in either order
NameDateTexts ==
    UNION {UNION {{n \o sep \o y, y \o sep \o n} : n \in DateMonthNames[k]} :
              k \in 1..12, sep \in DateNameSeps, y \in DateYears}

\* texts that are no date
DateOthers == {"", "sem data", "abc", "15.07.2025", "15072025", "99", "ano 2025"}

\* numeric dates whose month is no month, and words beside a year
DateOddMonths == {"15/13/2025", "13/2025", "2025-00", "1/0/2025", "15.13.2025"}
DateWords == {"setup 2025", "marketing 2025", "2025/setup", "projeto 2025", "semana-2025"}

DateTexts ==
    DayDateTexts \cup MonthDateTexts \cup NameDateTexts \cup DateOthers
        \cup DateOddMonths \cup DateWords

InitDate ==
    /\ data = << >>
    /\ column_overrides = NoOverrides
    /\ contracts_data = << >>
    /\ last_error = ""
    /\ arg \in DateTexts
    /\ ret = NotCalled
    /\ FetchIdle

ExtractMonthYear ==
    /\ ret = NotCalled
    /\ ret' = [op |-> "_extract_month_year_from_date",
               out |-> extract_month_year_from_date(arg)]
    /\ UNCHANGED <<data, column_overrides, contracts_data, last_error, arg>>
    /\ UNCHANGED FetchState

NextDate == ExtractMonthYear

SpecDate == InitDate /\ [][NextDate]_vars

DateReturned == ret.op = "_extract_month_year_from_date"

\* the key yyyy-mm of a year and a month number written with one or two digits
KeyOfMonth(y, m) == y \o "-" \o (IF Len(m) = 1 THEN "0" \o m ELSE m)

\* the two digits of the month k
MonthDigits(k) == IF k < 10 THEN Ch(DigitChars, 1) \o Ch(DigitChars, k + 1)
                  ELSE Ch(DigitChars, 2) \o Ch(DigitChars, k - 9)

(***************************************************************************)
(* C11: _extract_month_year_from_date gives the key yyyy-mm, the month on  *)
(* two digits, for a numeric date with day (d/m/yyyy, d-m-yyyy, yyyy/m/d,  *)
(* yyyy-m-d), for a numeric month and year (m/yyyy, m-yyyy, yyyy/m,        *)
(* yyyy-m) and for a month name with a year: "15/07/2025", "07/2025",      *)
(* "jul/2025" and "2025-07-15" all give "2025-07".                         *)
(***************************************************************************)
C11_DateKeys ==
    DateReturned =>
        /\ (arg \in {"15/07/2025", "07/2025", "jul/2025", "2025-07-15"} => ret.out = "2025-07")
        /\ \A d \in DateDays, m \in DateMonths, y \in DateYears :
              arg \in {d \o "/" \o m \o "/" \o y, d \o "-" \o m \o "-" \o y,
                       y \o "/" \o m \o "/" \o d, y \o "-" \o m \o "-" \o d}
                  => ret.out = KeyOfMonth(y, m)
        /\ \A m \in DateMonths, y \in DateYears :
              arg \in {m \o "/" \o y, m \o "-" \o y, y \o "/" \o m, y \o "-" \o m}
                  => ret.out = KeyOfMonth(y, m)
        /\ \A k \in 1..12, sep \in DateNameSeps, y \in DateYears :
              \A n \in DateMonthNames[k] :
                  arg \in {n \o sep \o y, y \o sep \o n} => ret.out = y \o "-" \o MonthDigits(k)

C11_Witness ==
    /\ DateReturned /\ arg = "15/7/2025"
    /\ ret.out = "2025-07"

(***************************************************************************)
(* The extractor                                                           *)
(***************************************************************************)
Init ==
    /\ data = << >>
    /\ column_overrides = NoOverrides
    /\ contracts_data = << >>
    /\ last_error = ""
    /\ arg = ""
    /\ ret = NotCalled
    /\ FetchIdle

\* one key of set_column_overrides, lines 155-157
cleaned_override(val, headers) ==
    IF Strip(val) # "" /\ (headers = << >> \/ InSeq(headers, val)) THEN Strip(val) ELSE ""

\* the dict set_column_overrides stores, with "" for a key it leaves out
cleaned(overrides, headers) ==
    [key \in {"data", "proposta", "boleto"} |-> cleaned_override(overrides[key], headers)]

\* the values self.data and self.column_overrides take in the model
DataStates == {<< >>} \cup AllBatches
OverrideStates ==
    {NoOverrides} \cup {cleaned(o, IF d # << >> THEN headers_of(d) ELSE << >>) :
                            o \in OverrideRequests, d \in DataStates}

\* the two views tabulated over those values
monthly_summary ==
    [d \in DataStates, ov \in OverrideStates |-> get_monthly_summary_by_columns(d, ov)]
detailed_monthly_data ==
    [d \in DataStates, ov \in OverrideStates |-> get_detailed_monthly_data(d, ov)]

\* set_column_overrides(overrides)
SetColumnOverrides(overrides) ==
    LET headers == IF data # << >> THEN headers_of(data) ELSE << >>
    IN  /\ column_overrides' = cleaned(overrides, headers)
        /\ arg' = overrides
        /\ ret' = [op |-> "set_column_overrides"]
        /\ UNCHANGED <<data, contracts_data, last_error>>
        /\ UNCHANGED FetchState

\* extract_data_from_sheet(url), the fetch giving the batch rows, as one step;
\* authenticated tells whether an authenticate() of the call built the service
ExtractData(rows, authenticated) ==
    /\ data' = rows
    /\ last_error' = ""
    /\ arg' = ""
    /\ ret' = [op |-> "extract_data_from_sheet", out |-> TRUE]
    /\ service' = (service \/ authenticated)
    /\ UNCHANGED <<column_overrides, contracts_data>>
    /\ UNCHANGED <<public_only, preferred_sheet_title, pc, requests>>

\* extract_contracts_data(sheet_id), the fetch giving the contract rows: the
\* service is built by then, by the authenticate() of line 1280 if it was not
ExtractContracts(contracts) ==
    /\ contracts_data' = contracts
    /\ arg' = ""
    /\ ret' = [op |-> "extract_contracts_data", out |-> TRUE]
    /\ service' = TRUE
    /\ last_error' = (IF service THEN last_error ELSE "")
    /\ UNCHANGED <<data, column_overrides>>
    /\ UNCHANGED <<public_only, preferred_sheet_title, pc, requests>>

\* a view that answers a repeated call from a spent cache
GetMonthlySummary_Spent ==
    /\ arg' = ""
    /\ ret' = [op |-> "get_monthly_summary_by_columns",
               out |-> IF ret.op = "get_monthly_summary_by_columns"
                       THEN [error |-> "Nenhum dado disponível"]
                       ELSE monthly_summary[data, column_overrides]]
    /\ UNCHANGED <<data, column_overrides, contracts_data, last_error>>
    /\ UNCHANGED FetchState

GetMonthlySummary ==
    /\ arg' = ""
    /\ ret' = [op |-> "get_monthly_summary_by_columns",
               out |-> monthly_summary[data, column_overrides]]
    /\ UNCHANGED <<data, column_overrides, contracts_data, last_error>>
    /\ UNCHANGED FetchState

GetDetailed ==
    /\ arg' = ""
    /\ ret' = [op |-> "get_detailed_monthly_data",
               out |-> detailed_monthly_data[data, column_overrides]]
    /\ UNCHANGED <<data, column_overrides, contracts_data, last_error>>
    /\ UNCHANGED FetchState

\* get_monthly_data_with_projections(months) on the flat view real_data of the
\* extractor: the value returned and the message left in last_error
ProjectionsOn(real_data, months) ==
    /\ arg' = months
    /\ ret' = [op |-> "get_monthly_data_with_projections",
               out |-> get_monthly_data_with_projections(real_data, contracts_data, months)]
    /\ last_error' = last_error_after_projections(real_data, contracts_data, months,
                                                  last_error)
    /\ UNCHANGED <<data, column_overrides, contracts_data>>
    /\ UNCHANGED FetchState

GetWithProjections(months) == ProjectionsOn(monthly_summary[data, column_overrides], months)

\* get_monthly_data_with_auto_projections() in the month now, likewise
AutoProjectionsOn(real_data, now) ==
    /\ arg' = now
    /\ ret' = [op |-> "get_monthly_data_with_auto_projections",
               out |-> get_monthly_data_with_auto_projections(real_data, contracts_data, now)]
    /\ last_error' = last_error_after_projections(real_data, contracts_data,
                                                  future_months(now), last_error)
    /\ UNCHANGED <<data, column_overrides, contracts_data>>
    /\ UNCHANGED FetchState

GetWithAutoProjections(now) ==
    AutoProjectionsOn(monthly_summary[data, column_overrides], now)

Next ==
    \/ \E overrides \in OverrideRequests : SetColumnOverrides(overrides)
    \/ \E rows \in AllBatches, authenticated \in BOOLEAN : ExtractData(rows, authenticated)
    \/ \E contracts \in ContractLists : ExtractContracts(contracts)
    \/ GetMonthlySummary
    \/ GetDetailed
    \/ \E months \in MonthLists : GetWithProjections(months)
    \/ \E now \in NowMonths : GetWithAutoProjections(now)

Spec == Init /\ [][Next]_vars

(***************************************************************************)
(* What the claims read from a result                                      *)
(***************************************************************************)
RECURSIVE SetToSeq(_)
SetToSeq(S) ==
    IF S = {} THEN << >>
    ELSE LET x == CHOOSE y \in S : TRUE IN <<x>> \o SetToSeq(S \ {x})

\* the values of a dict modelled as a function, in some order
ValuesOf(f) == LET ks == SetToSeq(DOMAIN f) IN [i \in 1..Len(ks) |-> f[ks[i]]]

\* the leaf records of a month of the hierarchical view
LeafRecords(m) ==
    LET tipos == ValuesOf(m.tipos)
    IN  FlattenSeq([i \in 1..Len(tipos) |->
            LET empresas == ValuesOf(tipos[i].empresas)
            IN  FlattenSeq([j \in 1..Len(empresas) |-> empresas[j].propostas])])

FlatReturned == ret.op = "get_monthly_summary_by_columns"
DetailedReturned == ret.op = "get_detailed_monthly_data"
ProjectionsReturned ==
    ret.op \in {"get_monthly_data_with_projections", "get_monthly_data_with_auto_projections"}

IsError(out) == "error" \in DOMAIN out

\* the flat view of the extractor as it stands
FlatNow == monthly_summary[data, column_overrides]

(***************************************************************************)
(* C1 as claimed: when both views succeed on the loaded rows and           *)
(* overrides, for every month present in both, the leaf records of the     *)
(* hierarchical view sum to the flat bucket's total_proposta and           *)
(* total_boleto, within 0.01.                                              *)
(***************************************************************************)
C1_ViewsAgree ==
    DetailedReturned /\ ~IsError(ret.out) /\ ~IsError(FlatNow) =>
        \A i \in 1..Len(ret.out.detailed_data) : \A j \in 1..Len(FlatNow.resumo_mensal) :
            LET m == ret.out.detailed_data[i]
                b == FlatNow.resumo_mensal[j]
            IN  m.month = b.month =>
                    /\ DWithinCent(DSum(LeafRecords(m), "valor_proposta"), b.total_proposta)
                    /\ DWithinCent(DSum(LeafRecords(m), "valor_boleto"), b.total_boleto)

(***************************************************************************)
(* C2: in the hierarchical view every level carries the sums of its        *)
(* children: the totals of a month are the sums over its tipos, the totals *)
(* of a tipo the sums over its empresas, and the totals of an empresa the  *)
(* sums over its propostas records, total_registros being their number.    *)
(* Amounts are exact decimals here, so the sums are compared exactly.      *)
(***************************************************************************)
RECURSIVE ISum(_)
ISum(seq) == IF seq = << >> THEN 0 ELSE Head(seq) + ISum(Tail(seq))

\* the four totals summed over the nodes of one level
TotalsOver(nodes) ==
    LET ts == [i \in 1..Len(nodes) |-> nodes[i].totals]
    IN  [total_proposta |-> DSum(ts, "total_proposta"),
         total_boleto |-> DSum(ts, "total_boleto"),
         total_diferenca |-> DSum(ts, "total_diferenca"),
         total_registros |-> ISum([i \in 1..Len(ts) |-> ts[i].total_registros])]

\* the four totals of a list of leaf records
TotalsOfRecords(propostas) ==
    [total_proposta |-> DSum(propostas, "valor_proposta"),
     total_boleto |-> DSum(propostas, "valor_boleto"),
     total_diferenca |-> DSum(propostas, "diferenca"),
     total_registros |-> Len(propostas)]

C2_LevelsSum ==
    DetailedReturned /\ ~IsError(ret.out) =>
        \A i \in 1..Len(ret.out.detailed_data) :
            LET m == ret.out.detailed_data[i]
            IN  /\ m.totals = TotalsOver(ValuesOf(m.tipos))
                /\ \A t \in DOMAIN m.tipos :
                      /\ m.tipos[t].totals = TotalsOver(ValuesOf(m.tipos[t].empresas))
                      /\ \A e \in DOMAIN m.tipos[t].empresas :
                            m.tipos[t].empresas[e].totals
                                = TotalsOfRecords(m.tipos[t].empresas[e].propostas)

\* a month of one category with two counterparties, one record each
C2_Witness ==
    /\ DetailedReturned /\ ~IsError(ret.out)
    /\ \E i \in 1..Len(ret.out.detailed_data) :
          LET m == ret.out.detailed_data[i]
          IN  /\ DOMAIN m.tipos = {"Setup"}
              /\ DOMAIN m.tipos["Setup"].empresas = {"ACME", "Beta"}
              /\ m.totals.total_registros = 2
              /\ m.totals.total_proposta = Dec(125025, 2)
              /\ m.totals.total_diferenca = Dec(0 - 10025, 2)

(***************************************************************************)
(* C3 as claimed: a month whose real rows give a nonzero total_proposta or *)
(* total_boleto, negative totals included, is never projected: after       *)
(* either projection operation its bucket is still the bucket of the real  *)
(* rows, without is_projection.                                            *)
(***************************************************************************)
C3_NonzeroNeverProjected ==
    ProjectionsReturned /\ ~IsError(FlatNow) =>
        \A j \in 1..Len(FlatNow.resumo_mensal) :
            LET b == FlatNow.resumo_mensal[j]
            IN  b.total_proposta # Zero \/ b.total_boleto # Zero =>
                    \E i \in 1..Len(ret.out.resumo_mensal) : ret.out.resumo_mensal[i] = b

(***************************************************************************)
(* C4: in every bucket of the flat view, of real rows or of a projection,  *)
(* total_diferenca is total_boleto minus total_proposta, and               *)
(* total_diferenca_geral is total_boleto_geral minus total_proposta_geral. *)
(* Amounts are exact decimals here, so the two sides are compared exactly. *)
(***************************************************************************)
C4_DifferenceIdentity ==
    (FlatReturned \/ ProjectionsReturned) /\ "resumo_mensal" \in DOMAIN ret.out =>
        /\ \A i \in 1..Len(ret.out.resumo_mensal) :
              LET b == ret.out.resumo_mensal[i]
              IN  b.total_diferenca = DSub(b.total_boleto, b.total_proposta)
        /\ ret.out.total_diferenca_geral
               = DSub(ret.out.total_boleto_geral, ret.out.total_proposta_geral)

\* a real month of difference -100 beside a projected month
C4_Witness ==
    /\ ret.op = "get_monthly_data_with_projections"
    /\ "resumo_mensal" \in DOMAIN ret.out
    /\ Len(ret.out.resumo_mensal) = 2
    /\ ret.out.resumo_mensal[1].total_diferenca = Dec(0 - 100, 0)
    /\ "is_projection" \notin DOMAIN ret.out.resumo_mensal[1]
    /\ "is_projection" \in DOMAIN ret.out.resumo_mensal[2]
    /\ ret.out.resumo_mensal[2].total_proposta = Dec(1500, 0)
    /\ ret.out.total_diferenca_geral = Dec(0 - 100, 0)

(***************************************************************************)
(* C5 as claimed: an aggregation operation returns either a result or a    *)
(* single error value, never both: a returned dict that holds 'error'      *)
(* holds nothing else, no 'resumo_mensal' and no totals.                   *)
(***************************************************************************)
C5_ErrorOrResult ==
    (FlatReturned \/ DetailedReturned \/ ProjectionsReturned) /\ IsError(ret.out) =>
        DOMAIN ret.out = {"error"}

(***************************************************************************)
(* C6: when the lookup of the date, proposal or invoice column of a view   *)
(* ends without a column, the view returns a dict with the single key      *)
(* 'error' and no monthly bucket.                                          *)
(***************************************************************************)
Unresolved(cols) == cols.data = "" \/ cols.proposta = "" \/ cols.boleto = ""

C6_UnresolvedIsErrorOnly ==
    data # << >> =>
        /\ FlatReturned /\ Unresolved(FlatColumns(data, column_overrides)) =>
              DOMAIN ret.out = {"error"}
        /\ DetailedReturned /\ Unresolved(DetailedColumns(data, column_overrides)) =>
              DOMAIN ret.out = {"error"}

\* the flat view on a sheet of which no column names or holds a date
C6_Witness ==
    /\ FlatReturned /\ data # << >>
    /\ headers_of(data) = NotesCols
    /\ FlatColumns(data, column_overrides).data = ""
    /\ ret.out = [error |-> "Não foi possível identificar colunas de Data/Proposta/Boleto pelo cabeçalho"]

(***************************************************************************)
(* C7 as claimed: overrides take absolute priority: for each role whose    *)
(* stored override is a header of the loaded rows, the flat view and the   *)
(* hierarchical view both use exactly that header for the role.            *)
(***************************************************************************)
C7_OverridePriority ==
    data # << >> =>
        \A role \in {"data", "proposta", "boleto"} :
            LET o == column_overrides[role]
            IN  o # "" /\ InSeq(headers_of(data), o) =>
                    /\ FlatReturned /\ ~IsError(ret.out) => ret.out.columns_used[role] = o
                    /\ DetailedReturned =>
                           DetailedColumns(data, column_overrides)[role] = o

(***************************************************************************)
(* C12: in the flat view, the bucket of a month key m carries the sums of  *)
(* the normalized proposal and invoice cells over exactly the rows whose   *)
(* date cell normalizes to m, and count is the number of those rows; every *)
(* month some row normalizes to has its bucket.  The rows of 10/06/2025    *)
(* and 20/06/2025 with proposals 1.000,00 and 500,50 and invoices 900,00   *)
(* and 500,50 give 2025-06 with 1500.50, 1400.50, -100.00 and count 2.     *)
(* Amounts are exact decimals here, so the sums are compared exactly.      *)
(***************************************************************************)
\* the month key of the date cell of a row, "" for none
MonthOfRow(row, date_column) == extract_month_year_from_date(RowGet(row, date_column))

\* the places of the rows of d whose date cell normalizes to month
RowsOfMonth(d, date_column, month) ==
    SelectSeq([i \in 1..Len(d) |-> i], LAMBDA i : MonthOfRow(d[i], date_column) = month)

\* the sum of the normalized cells of a column over the rows at the places idx
CellSum(d, idx, column) ==
    DSum([k \in 1..Len(idx) |->
             [v |-> extract_expense_value(RowGet(d[idx[k]], column)).value]], "v")

C12_BucketIsSumOfRows ==
    FlatReturned /\ ~IsError(ret.out) =>
        LET cols == ret.out.columns_used
        IN  /\ \A j \in 1..Len(ret.out.resumo_mensal) :
                  LET b   == ret.out.resumo_mensal[j]
                      idx == RowsOfMonth(data, cols.data, b.month)
                  IN  /\ b.month # ""
                      /\ b.total_proposta = CellSum(data, idx, cols.proposta)
                      /\ b.total_boleto = CellSum(data, idx, cols.boleto)
                      /\ b.count = Len(idx)
                      /\ Len(b.items) = Len(idx)
            /\ \A i \in 1..Len(data) :
                  MonthOfRow(data[i], cols.data) # "" =>
                      \E j \in 1..Len(ret.out.resumo_mensal) :
                          ret.out.resumo_mensal[j].month = MonthOfRow(data[i], cols.data)

C12_Witness ==
    /\ FlatReturned /\ ~IsError(ret.out)
    /\ Len(data) = 2
    /\ RowGet(data[1], "Data") = "10/06/2025" /\ RowGet(data[2], "Data") = "20/06/2025"
    /\ Len(ret.out.resumo_mensal) = 1
    /\ ret.out.resumo_mensal[1].month = "2025-06"
    /\ ret.out.resumo_mensal[1].total_proposta = Dec(150050, 2)
    /\ ret.out.resumo_mensal[1].total_boleto = Dec(140050, 2)
    /\ ret.out.resumo_mensal[1].total_diferenca = Dec(0 - 100, 0)
    /\ ret.out.resumo_mensal[1].count = 2

(***************************************************************************)
(* C13: a row is left out of a view exactly when its date cell is absent,  *)
(* empty or does not normalize to a month key.  In the flat view the items *)
(* of each bucket are the rows whose date cell normalizes to its month, in *)
(* row order, each with its proposal and its invoice value, 0 for a cell   *)
(* that is absent, empty or unparseable.  In the hierarchical view the     *)
(* leaf records are those same rows of its own date column, one record a   *)
(* row, each in the month of its date cell.  A view answers with an error  *)
(* only for no rows or an unresolved column, never for a row it skips.     *)
(***************************************************************************)
\* the row under its date column counts in a month
RowCounted(row, date_column) ==
    RowGet(row, date_column) # "" /\ MonthOfRow(row, date_column) # ""

\* the amount a view takes for a cell: 0 for an absent, empty or unparseable one
AmountOfCell(row, column) ==
    IF RowGet(row, column) = "" THEN Zero
    ELSE extract_expense_value(RowGet(row, column)).value

\* the leaf records of every month of a hierarchical result
AllLeafRecords(out) ==
    FlattenSeq([j \in 1..Len(out.detailed_data) |->
        LET recs == LeafRecords(out.detailed_data[j])
        IN  [k \in 1..Len(recs) |-> [month |-> out.detailed_data[j].month, rec |-> recs[k]]]])

C13_SkippedOnlyForDate ==
    /\ FlatReturned /\ ~IsError(ret.out) =>
          LET cols == ret.out.columns_used
          IN  /\ \A j \in 1..Len(ret.out.resumo_mensal) :
                    LET b   == ret.out.resumo_mensal[j]
                        idx == RowsOfMonth(data, cols.data, b.month)
                    IN  /\ Len(b.items) = Len(idx)
                        /\ \A k \in 1..Len(idx) :
                              /\ b.items[k].data = RowGet(data[idx[k]], cols.data)
                              /\ b.items[k].valor_proposta = AmountOfCell(data[idx[k]], cols.proposta)
                              /\ b.items[k].valor_boleto = AmountOfCell(data[idx[k]], cols.boleto)
              /\ \A i \in 1..Len(data) :
                    RowCounted(data[i], cols.data) <=>
                        \E j \in 1..Len(ret.out.resumo_mensal) :
                            ret.out.resumo_mensal[j].month = MonthOfRow(data[i], cols.data)
    /\ FlatReturned /\ IsError(ret.out) =>
          data = << >> \/ Unresolved(FlatColumns(data, column_overrides))
    /\ DetailedReturned /\ ~IsError(ret.out) =>
          LET cols  == DetailedColumns(data, column_overrides)
              leafs == AllLeafRecords(ret.out)
          IN  /\ \A i \in 1..Len(data) :
                    RowCounted(data[i], cols.data) <=>
                        \E k \in 1..Len(leafs) : leafs[k].rec.row_index = i - 1
              /\ \A k, l \in 1..Len(leafs) :
                    leafs[k].rec.row_index = leafs[l].rec.row_index => k = l
              /\ \A k \in 1..Len(leafs) :
                    LET row == data[leafs[k].rec.row_index + 1]
                    IN  /\ leafs[k].month = MonthOfRow(row, cols.data)
                        /\ leafs[k].rec.valor_proposta = AmountOfCell(row, cols.proposta)
                        /\ leafs[k].rec.valor_boleto = AmountOfCell(row, cols.boleto)
    /\ DetailedReturned /\ IsError(ret.out) =>
          data = << >> \/ Unresolved(DetailedColumns(data, column_overrides))

\* the row of 01/08/2025 with the proposal "-" is counted with 0 and the row
\* dated "sem data" is left out
C13_Witness ==
    /\ FlatReturned /\ ~IsError(ret.out)
    /\ Len(data) = 2
    /\ RowGet(data[1], "Data") = "01/08/2025" /\ RowGet(data[1], "Valor Proposta") = "-"
    /\ RowGet(data[2], "Data") = "sem data"
    /\ ret.out.columns_used.data = "Data"
    /\ ret.out.columns_used.proposta = "Valor Proposta"
    /\ Len(ret.out.resumo_mensal) = 1
    /\ ret.out.resumo_mensal[1].month = "2025-08"
    /\ ret.out.resumo_mensal[1].count = 1
    /\ ret.out.resumo_mensal[1].items[1].valor_proposta = Zero

AutoReturned == ret.op = "get_monthly_data_with_auto_projections"

C15_InputsOnly ==
    AutoReturned =>
        \A now \in NowMonths :
            ret.out = get_monthly_data_with_auto_projections(FlatNow, contracts_data, now)

(***************************************************************************)
(* Projected months, as the claims read them                               *)
(***************************************************************************)
ManualReturned == ret.op = "get_monthly_data_with_projections"

\* a month is eligible when the flat view of the real rows has no bucket of it
\* or a bucket whose proposal and invoice totals are both 0
Eligible(month) ==
    LET resumo == ResumoOf(FlatNow)
    IN  \A j \in 1..Len(resumo) :
            resumo[j].month = month =>
                resumo[j].total_proposta = Zero /\ resumo[j].total_boleto = Zero

\* the contracts that apply to a month, in the order of the contract list
ApplicableContracts(month) ==
    SelectSeq(contracts_data,
              LAMBDA c : ContractUsable(c) /\ ContractCovers(c, month))

\* the buckets of a month in a returned view that are projections
ProjectionBuckets(out, month) ==
    SelectSeq(ResumoOf(out),
              LAMBDA b : b.month = month /\ "is_projection" \in DOMAIN b /\ b.is_projection)

\* the bucket is the projection of the contracts cs
ProjectsContracts(b, cs) ==
    /\ b.total_proposta = DSum(cs, "Valor_num")
    /\ b.total_boleto = b.total_proposta
    /\ b.total_diferenca = Zero
    /\ Len(b.items) = Len(cs)
    /\ \A k \in 1..Len(cs) :
          /\ b.items[k].proposta = cs[k].Proposta
          /\ b.items[k].valor_proposta = cs[k].Valor_num
          /\ b.items[k].valor_boleto = cs[k].Valor_num

\* the contracts with their installment values normalized
WithValues(cs) ==
    [k \in 1..Len(cs) |->
        [Proposta |-> cs[k].Proposta,
         Valor_num |-> extract_expense_value(cs[k].Valor).value]]

(***************************************************************************)
(* C16 as claimed: every eligible month of the list given to               *)
(* get_monthly_data_with_projections has in the merged view a bucket with  *)
(* is_projection = true, total_proposta = total_boleto = the sum of the    *)
(* installment values of the contracts applicable to it, total_diferenca   *)
(* = 0 and one item a contract: for a month no contract applies to, a      *)
(* projection bucket of 0 with no item.                                    *)
(***************************************************************************)
C16_EveryEligibleMonth ==
    ManualReturned =>
        \A k \in 1..Len(arg) :
            Eligible(arg[k]) =>
                /\ Len(ProjectionBuckets(ret.out, arg[k])) = 1
                /\ ProjectsContracts(ProjectionBuckets(ret.out, arg[k])[1],
                                     WithValues(ApplicableContracts(arg[k])))

(***************************************************************************)
(* C16: every eligible month of the list given to                          *)
(* get_monthly_data_with_projections to which at least one contract        *)
(* applies has in the merged view one bucket with is_projection = true,    *)
(* total_proposta = total_boleto = the sum of the installment values of    *)
(* the applicable contracts, total_diferenca = 0 and one item a contract,  *)
(* in the order of the contract list.  An eligible month to which no       *)
(* contract applies gets no projection bucket.                             *)
(***************************************************************************)
C16_ProjectedMonth ==
    ManualReturned =>
        \A k \in 1..Len(arg) :
            Eligible(arg[k]) =>
                IF ApplicableContracts(arg[k]) = << >>
                THEN ProjectionBuckets(ret.out, arg[k]) = << >>
                ELSE /\ Len(ProjectionBuckets(ret.out, arg[k])) = 1
                     /\ ProjectsContracts(ProjectionBuckets(ret.out, arg[k])[1],
                                          WithValues(ApplicableContracts(arg[k])))

\* 2025-08 has no real rows and the contracts P-1 and P-2 apply to it
C16_Witness ==
    /\ ManualReturned /\ arg = <<"2025-06", "2025-08", "2025-09">>
    /\ Eligible("2025-08")
    /\ Len(ApplicableContracts("2025-08")) = 2
    /\ Len(ProjectionBuckets(ret.out, "2025-08")) = 1
    /\ ProjectionBuckets(ret.out, "2025-08")[1].total_proposta = Dec(3500, 0)
    /\ ProjectionBuckets(ret.out, "2025-08")[1].total_boleto = Dec(3500, 0)
    /\ Len(ProjectionBuckets(ret.out, "2025-08")[1].items) = 2

(***************************************************************************)
(* C17 as claimed: a contract contributes a projection record to an        *)
(* eligible target month exactly when its Proposta, Valor da Parcela, 1ª   *)
(* Data Vencimento, Ult Data Venc and Tipo are all present and parseable   *)
(* and the first day of the month is within [start date, end date], both   *)
(* ends included: an installment value that parses, 0 included, counts as  *)
(* parseable.  A contract that fails this is left out and the call still   *)
(* returns its view: an 'error' in it is the error of the real rows.       *)
(***************************************************************************)
\* the installment text is a number the value normalizer reads
ParseableValue(text) ==
    /\ text # "" /\ Strip(text) \notin PlaceholderTokens
    /\ KeepChars(Strip(text), Digits \cup {",", "."}) \notin {"", ".", ","}
    /\ ~ExpenseValueTry(text).raised

\* the five fields are present and parseable and the month's first day is
\* within the two dates
FieldsCover(c, month) ==
    /\ c.Proposta # "" /\ c.Tipo # ""
    /\ ParseableValue(c.Valor)
    /\ parse_contract_date(c.Inicio) # NoDate /\ parse_contract_date(c.Fim) # NoDate
    /\ target_dt(month) # NoDate
    /\ ~DateLess(target_dt(month), parse_contract_date(c.Inicio))
    /\ ~DateLess(parse_contract_date(c.Fim), target_dt(month))

\* the contract has a projection record in the month of the returned view
Contributes(c, month) ==
    \E j \in 1..Len(ResumoOf(ret.out)) :
        LET b == ResumoOf(ret.out)[j]
        IN  /\ b.month = month /\ "is_projection" \in DOMAIN b
            /\ \E k \in 1..Len(b.items) : b.items[k].proposta = c.Proposta

C17_ContributesIffCovered ==
    ManualReturned =>
        /\ \A i \in 1..Len(arg), k \in 1..Len(contracts_data) :
              Eligible(arg[i]) =>
                  (Contributes(contracts_data[k], arg[i])
                      <=> FieldsCover(contracts_data[k], arg[i]))
        /\ IsError(ret.out) => IsError(FlatNow)

(***************************************************************************)
(* C17: a contract contributes a projection record to an eligible target   *)
(* month exactly when its Proposta, Valor da Parcela, 1ª Data Vencimento,  *)
(* Ult Data Venc and Tipo are all present, the installment value           *)
(* normalizes to a number other than 0, both dates parse and the first day *)
(* of the month is within [start date, end date], both ends included.  A   *)
(* contract that fails this is left out and the call still returns its     *)
(* view: an 'error' in it is the error of the real rows.                   *)
(***************************************************************************)
C17_ContributesIffCoveredNonzero ==
    ManualReturned =>
        /\ \A i \in 1..Len(arg), k \in 1..Len(contracts_data) :
              Eligible(arg[i]) =>
                  (Contributes(contracts_data[k], arg[i])
                      <=> /\ FieldsCover(contracts_data[k], arg[i])
                          /\ extract_expense_value(contracts_data[k].Valor).value # Zero)
        /\ IsError(ret.out) => IsError(FlatNow)

\* 2025-07 is eligible: P-1, which starts on its first day, contributes; P-2
\* starts later, P-3 has no end date, P-4 has no value and P-5 the value 0
C17_Witness ==
    /\ ManualReturned /\ arg = <<"2025-07">>
    /\ Eligible("2025-07")
    /\ Len(contracts_data) = 5
    /\ Contributes(contracts_data[1], "2025-07")
    /\ \A k \in 2..5 : ~Contributes(contracts_data[k], "2025-07")
    /\ FieldsCover(contracts_data[5], "2025-07")

(***************************************************************************)
(* C18: in every flat result, of the real rows alone or with projections   *)
(* merged, total_proposta_geral, total_boleto_geral and                    *)
(* total_diferenca_geral are the sums of total_proposta, total_boleto and  *)
(* total_diferenca over all buckets of resumo_mensal, and                  *)
(* meses_processados is the number of buckets.  Amounts are exact decimals *)
(* here, so the sums are compared exactly.                                 *)
(***************************************************************************)
\* the sum of a field over the buckets at the places 1..n
RECURSIVE FieldSum(_, _, _)
FieldSum(buckets, field, n) ==
    IF n = 0 THEN Zero ELSE DAdd(FieldSum(buckets, field, n - 1), buckets[n][field])

C18_GrandTotals ==
    (FlatReturned \/ ProjectionsReturned) /\ "resumo_mensal" \in DOMAIN ret.out =>
        LET resumo == ret.out.resumo_mensal
        IN  /\ ret.out.total_proposta_geral = FieldSum(resumo, "total_proposta", Len(resumo))
            /\ ret.out.total_boleto_geral = FieldSum(resumo, "total_boleto", Len(resumo))
            /\ ret.out.total_diferenca_geral = FieldSum(resumo, "total_diferenca", Len(resumo))
            /\ ret.out.meses_processados = Len(resumo)

\* the real month 2025-06 of 1500.50 and 1400.50 beside the projected months
\* 2025-08 of 3500 and 2025-09 of 1500
C18_Witness ==
    /\ ManualReturned /\ arg = <<"2025-06", "2025-08", "2025-09">>
    /\ "resumo_mensal" \in DOMAIN ret.out /\ ~IsError(ret.out)
    /\ Len(ret.out.resumo_mensal) = 3
    /\ ret.out.resumo_mensal[1].total_proposta = Dec(150050, 2)
    /\ "is_projection" \in DOMAIN ret.out.resumo_mensal[2]
    /\ "is_projection" \in DOMAIN ret.out.resumo_mensal[3]
    /\ ret.out.total_proposta_geral = Dec(650050, 2)
    /\ ret.out.total_boleto_geral = Dec(640050, 2)
    /\ ret.out.total_diferenca_geral = Dec(0 - 100, 0)
    /\ ret.out.meses_processados = 3

(***************************************************************************)
(* The reconciler, src/app.py display_month_details                        *)
(*                                                                         *)
(* display_month_details(extractor, mes_key, mes_nome) asks the extractor  *)
(* it is handed for the hierarchical view and for the flat view and        *)
(* compares, for the month mes_key, the flat totals with the sums over the *)
(* leaf records.  Here the extractor handed to it answers the hierarchical *)
(* view of the loaded rows with one leaf record altered: arg is the        *)
(* alteration [row_index, field, amount], the amount 0 standing for the    *)
(* view as the rows give it.                                               *)
(***************************************************************************)
\* amount added to a field of the leaf record of a row, level by level
AlterRecords(propostas, alteration) ==
    [q \in 1..Len(propostas) |->
        IF propostas[q].row_index = alteration.row_index
        THEN [propostas[q] EXCEPT
                 ![alteration.field] = DAdd(propostas[q][alteration.field], alteration.amount)]
        ELSE propostas[q]]

AlterEmpresas(empresas, alteration) ==
    [e \in DOMAIN empresas |->
        [empresas[e] EXCEPT !.propostas = AlterRecords(empresas[e].propostas, alteration)]]

AlterTipos(tipos, alteration) ==
    [t \in DOMAIN tipos |->
        [tipos[t] EXCEPT !.empresas = AlterEmpresas(tipos[t].empresas, alteration)]]

\* the hierarchical view with one leaf record altered
AlterLeaf(view, alteration) ==
    IF IsError(view) \/ alteration.amount = Zero THEN view
    ELSE [view EXCEPT !.detailed_data =
             [j \in 1..Len(view.detailed_data) |->
                 [view.detailed_data[j] EXCEPT
                     !.tipos = AlterTipos(view.detailed_data[j].tipos, alteration)]]]

\* abs(diff) > 0.01, line 657
OverCent(diff) == ~DWithinCent(diff, Zero)

\* lines 614-630 and 657-661: the comparison of the month month_data with the
\* bucket resumo_mes of the flat view, << >> for the {} of a month it lacks
CrossValidation(items_detalhado, resumo_mes) ==
    [shown |-> "details",
     diff_boleto |-> DSub(IF resumo_mes = << >> THEN Zero ELSE resumo_mes[1].total_boleto,
                          DSum(items_detalhado, "valor_boleto")),
     diff_proposta |-> DSub(IF resumo_mes = << >> THEN Zero ELSE resumo_mes[1].total_proposta,
                            DSum(items_detalhado, "valor_proposta")),
     itens_detalhados |-> Len(items_detalhado),
     registros_resumo |-> IF resumo_mes = << >> THEN 0 ELSE resumo_mes[1].count]

\* the consistency panel is shown, line 657
PanelShown(result) ==
    result.shown = "details"
        /\ (OverCent(result.diff_boleto) \/ OverCent(result.diff_proposta))

\* a reconciler that compares the flat totals with the totals of the month node
display_month_details_MonthTotals(detailed_data, resumo_all, mes_key) ==
    IF IsError(detailed_data) THEN [shown |-> "error"]
    ELSE IF MonthIndex(detailed_data.detailed_data, mes_key) = 0 THEN [shown |-> "warning"]
    ELSE CrossValidation(
             << [valor_boleto |-> detailed_data.detailed_data[
                     MonthIndex(detailed_data.detailed_data, mes_key)].totals.total_boleto,
                 valor_proposta |-> detailed_data.detailed_data[
                     MonthIndex(detailed_data.detailed_data, mes_key)].totals.total_proposta] >>,
             SelectSeq(ResumoOf(resumo_all), LAMBDA b : b.month = mes_key))

\* display_month_details on the two views the extractor answers: what it shows
display_month_details(detailed_data, resumo_all, mes_key) ==
    IF IsError(detailed_data) THEN [shown |-> "error"]
    ELSE IF MonthIndex(detailed_data.detailed_data, mes_key) = 0 THEN [shown |-> "warning"]
    ELSE CrossValidation(
             LeafRecords(detailed_data.detailed_data[
                             MonthIndex(detailed_data.detailed_data, mes_key)]),
             SelectSeq(ResumoOf(resumo_all), LAMBDA b : b.month = mes_key))

\* the months asked for and the amounts added to a leaf value
MesKeys == {"2025-06", "2025-07", "2025-08", "2024-01"}
AlterationAmounts == {Dec(5, 3), Dec(10, 0), Dec(0 - 25, 1)}

NoAlteration == [row_index |-> 0, field |-> "valor_boleto", amount |-> Zero]

\* the row_index of the leaf records of a hierarchical view
LeafRows(view) ==
    IF IsError(view) THEN {}
    ELSE UNION {{LeafRecords(view.detailed_data[j])[q].row_index :
                    q \in 1..Len(LeafRecords(view.detailed_data[j]))} :
                j \in 1..Len(view.detailed_data)}

AlterationsOf(view) ==
    {NoAlteration} \cup
        [row_index : LeafRows(view), field : {"valor_boleto", "valor_proposta"},
         amount : AlterationAmounts]

InitReconcile ==
    /\ data \in DataStates
    /\ column_overrides = NoOverrides
    /\ contracts_data = << >>
    /\ last_error = ""
    /\ arg \in AlterationsOf(detailed_monthly_data[data, column_overrides])
    /\ ret = NotCalled
    /\ FetchIdle

\* display_month_details(extractor, mes_key, mes_nome): out holds what it showed
\* and the two views as they are after the call
DisplayOn(detailed_data, resumo_all, mes_key) ==
    /\ ret' = [op |-> "display_month_details", mes_key |-> mes_key,
               out |-> display_month_details(detailed_data, resumo_all, mes_key),
               detailed_data |-> detailed_data, resumo_all |-> resumo_all]
    /\ UNCHANGED <<data, column_overrides, contracts_data, last_error, arg>>
    /\ UNCHANGED FetchState

DisplayMonthDetails(mes_key) ==
    /\ ret = NotCalled
    /\ DisplayOn(AlterLeaf(detailed_monthly_data[data, column_overrides], arg),
                 monthly_summary[data, column_overrides], mes_key)

NextReconcile == \E mes_key \in MesKeys : DisplayMonthDetails(mes_key)

SpecReconcile == InitReconcile /\ [][NextReconcile]_vars

(***************************************************************************)
(* What the claims read from a reconciliation                              *)
(***************************************************************************)
DisplayReturned == ret.op = "display_month_details"

\* the hierarchical view of the loaded rows, before the alteration
DetailedNow == detailed_monthly_data[data, column_overrides]

\* the month of the altered leaf record, "" when nothing is altered
AlteredMonth ==
    IF arg.amount = Zero \/ IsError(DetailedNow) THEN ""
    ELSE LET j == CHOOSE j \in 1..Len(DetailedNow.detailed_data) :
                     \E q \in 1..Len(LeafRecords(DetailedNow.detailed_data[j])) :
                         LeafRecords(DetailedNow.detailed_data[j])[q].row_index = arg.row_index
         IN  DetailedNow.detailed_data[j].month

\* the flat total of a month less the sum over its leaf records, on the views
\* the loaded rows give
BaseDelta(month, total, valor) ==
    LET resumo == ResumoOf(FlatNow)
        i == MonthIndex(resumo, month)
        j == MonthIndex(DetailedNow.detailed_data, month)
    IN  DSub(IF i = 0 THEN Zero ELSE resumo[i][total],
             DSum(LeafRecords(DetailedNow.detailed_data[j]), valor))

\* the delta of the altered value and the delta of the other value
DeltaOf(result, field) ==
    IF field = "valor_boleto" THEN result.diff_boleto ELSE result.diff_proposta
BaseDeltaOf(month, field) ==
    IF field = "valor_boleto" THEN BaseDelta(month, "total_boleto", "valor_boleto")
    ELSE BaseDelta(month, "total_proposta", "valor_proposta")
OtherField(field) == IF field = "valor_boleto" THEN "valor_proposta" ELSE "valor_boleto"

\* the call left the two views it was answered as they were
ViewsUntouched ==
    /\ ret.detailed_data = AlterLeaf(DetailedNow, arg)
    /\ ret.resumo_all = FlatNow

(***************************************************************************)
(* C19 as claimed: when one leaf record's value of a month of the          *)
(* hierarchical view is altered after aggregation, whatever the amount,    *)
(* the reconciliation of that month reports a delta between the flat total *)
(* and the leaf sum that is not 0 and has the size of the alteration, and  *)
(* it mutates neither view.                                                *)
(***************************************************************************)
C19_ReportsAlteration ==
    DisplayReturned /\ arg.amount # Zero /\ ret.mes_key = AlteredMonth =>
        /\ PanelShown(ret.out)
        /\ DeltaOf(ret.out, arg.field) \in {arg.amount, DNeg(arg.amount)}
        /\ ViewsUntouched

(***************************************************************************)
(* C19: when one leaf record's value of a month of the hierarchical view   *)
(* is altered after aggregation, the reconciliation of that month computes *)
(* for that value the delta of the unaltered views less the alteration     *)
(* (flat total minus leaf sum: where the views agreed, minus the           *)
(* alteration) and for the other value the delta of the unaltered views;   *)
(* it reports the deltas only when one of them exceeds 0.01 in absolute    *)
(* value, so that on views that agreed the alteration is reported exactly  *)
(* when it exceeds one cent; and it mutates neither view.                  *)
(***************************************************************************)
C19_DeltaMovesByAlteration ==
    DisplayReturned /\ arg.amount # Zero /\ ret.mes_key = AlteredMonth =>
        /\ ret.out.shown = "details"
        /\ DeltaOf(ret.out, arg.field)
               = DSub(BaseDeltaOf(ret.mes_key, arg.field), arg.amount)
        /\ DeltaOf(ret.out, OtherField(arg.field))
               = BaseDeltaOf(ret.mes_key, OtherField(arg.field))
        /\ (BaseDeltaOf(ret.mes_key, "valor_boleto") = Zero
               /\ BaseDeltaOf(ret.mes_key, "valor_proposta") = Zero)
              => (PanelShown(ret.out) <=> OverCent(arg.amount))
        /\ ViewsUntouched

\* 10 added to the invoice value of a leaf of a month on which the views agreed:
\* the delta reported for the invoice is -10, for the proposal 0
C19_Witness ==
    /\ DisplayReturned /\ ret.mes_key = AlteredMonth
    /\ arg.amount = Dec(10, 0) /\ arg.field = "valor_boleto"
    /\ BaseDeltaOf(ret.mes_key, "valor_boleto") = Zero
    /\ PanelShown(ret.out)
    /\ ret.out.diff_boleto = Dec(0 - 10, 0)
    /\ ret.out.diff_proposta = Zero

(***************************************************************************)
(* The fetch, step by step: extract_data_from_sheet                        *)
(*                                                                         *)
(* One action is one request of the call, or its start.  requests is the   *)
(* list of the requests the call has sent so far, each with its outcome:   *)
(* "authenticate" for a call of authenticate(), "metadata" for             *)
(* spreadsheets().get, "values" for spreadsheets().values().get and "csv"  *)
(* for the GET of the public CSV export.  The outcomes are the             *)
(* environment's.  The gid the title lookup resolves only chooses the tab  *)
(* that is read and is left out.                                           *)
(***************************************************************************)
IdChars == Letters \cup {Ch(UpperChars, i) : i \in 1..26} \cup Digits \cup {"-", "_"}

\* the leading run of s inside chars
RECURSIVE RunOf(_, _)
RunOf(s, chars) ==
    IF s # "" /\ Ch(s, 1) \in chars THEN Ch(s, 1) \o RunOf(Rest(s), chars) ELSE ""

\* re.search(marker + '([a-zA-Z0-9-_]+)', url).group(1), "" for no match
RECURSIVE MatchAfter(_, _)
MatchAfter(url, marker) ==
    IF Len(url) <= Len(marker) THEN ""
    ELSE IF StartsWith(url, marker)
            /\ RunOf(SubSeq(url, Len(marker) + 1, Len(url)), IdChars) # ""
    THEN RunOf(SubSeq(url, Len(marker) + 1, Len(url)), IdChars)
    ELSE MatchAfter(Rest(url), marker)

\* _extract_sheet_id(sheet_url), "" for None
extract_sheet_id(sheet_url) ==
    Or(MatchAfter(sheet_url, "/spreadsheets/d/"),
       Or(MatchAfter(sheet_url, "key="), MatchAfter(sheet_url, "id=")))

SheetUrls ==
    { "https://docs.google.com/spreadsheets/d/1AbC-d_9/edit#gid=0",
      "https://docs.google.com/planilha" }

\* the row batches a fetch brings
FetchedBatches == {b \in Batches(NotaCols, NotaPool) : Len(b) = 1}

\* the requests sent, with one more: its outcome, and the message of its failure
\* (the HTTP status or the text of the exception), "" without one
Failed(request, error) ==
    Append(requests, [request |-> request, ok |-> FALSE, error |-> error])

Sent(request, ok) ==
    Append(requests, [request |-> request, ok |-> ok, error |-> ""])

\* the statuses a refused export answers with, and the texts of the exceptions
\* of the transport
CsvStatuses == {"404", "500"}

TransportErrors == {"Read timed out"}

\* the value extract_data_from_sheet returns, the call being over
Returns(out) ==
    /\ ret' = [op |-> "extract_data_from_sheet", out |-> out]
    /\ pc' = "idle"

\* a title lookup that is made in the public mode too
ResolvesByTitle_AnyMode == preferred_sheet_title # ""

\* line 192: the title lookup is made, outside the public mode
ResolvesByTitle == ~public_only /\ preferred_sheet_title # ""

NoCredentials ==
    "Arquivo credentials.json não encontrado para OAuth local. Configure Service Account em produção."

\* authenticate() outside the public mode: the service built, or the message of
\* lines 121-124 for no credentials
Authenticate(ok) ==
    /\ requests' = (IF ok THEN Sent("authenticate", TRUE)
                            ELSE Failed("authenticate", NoCredentials))
    /\ service' = ok
    /\ last_error' = (IF ok THEN "" ELSE NoCredentials)

InitFetch ==
    /\ data = << >>
    /\ column_overrides = NoOverrides
    /\ contracts_data = << >>
    /\ last_error = ""
    /\ arg = ""
    /\ ret = NotCalled
    /\ service = FALSE
    /\ public_only \in BOOLEAN
    /\ preferred_sheet_title = "Despesas"
    /\ pc = "idle"
    /\ requests = << >>

\* lines 177-192: the call, up to the first request
CallExtract(sheet_url) ==
    /\ pc = "idle"
    /\ arg' = sheet_url
    /\ requests' = << >>
    /\ IF extract_sheet_id(sheet_url) = ""
       THEN /\ last_error' = "Não foi possível extrair o ID da planilha a partir da URL"
            /\ Returns(FALSE)
       ELSE /\ pc' = (IF ResolvesByTitle THEN "resolve" ELSE "csv")
            /\ ret' = NotCalled
            /\ UNCHANGED last_error
    /\ UNCHANGED <<data, column_overrides, contracts_data>>
    /\ UNCHANGED <<service, public_only, preferred_sheet_title>>

\* lines 195-197: authenticate() ahead of the title lookup; its value is not read
ResolveAuthenticate(ok) ==
    /\ pc = "resolve" /\ ~service
    /\ Authenticate(ok)
    /\ pc' = "find_gid"
    /\ UNCHANGED <<data, column_overrides, contracts_data, arg, ret>>
    /\ UNCHANGED <<public_only, preferred_sheet_title>>

\* lines 413-416: _find_gid_by_title authenticates again when no service is built
FindGidAuthenticate(ok) ==
    /\ pc = "find_gid" /\ ~service
    /\ Authenticate(ok)
    /\ pc' = (IF ok THEN "find_gid" ELSE "csv")
    /\ UNCHANGED <<data, column_overrides, contracts_data, arg, ret>>
    /\ UNCHANGED <<public_only, preferred_sheet_title>>

\* lines 417-423: the metadata request of _find_gid_by_title
FindGidMetadata(ok) ==
    /\ (pc = "resolve" \/ pc = "find_gid") /\ service
    /\ requests' = Sent("metadata", ok)
    /\ pc' = "csv"
    /\ UNCHANGED <<data, column_overrides, contracts_data, last_error, arg, ret>>
    /\ UNCHANGED <<service, public_only, preferred_sheet_title>>

\* lines 216-227 after a CSV export that brought no rows
AfterCsvFailure ==
    IF public_only
    THEN /\ last_error' = "CSV público indisponível e modo público ativo. Torne a planilha pública ou desative PUBLIC_ONLY."
         /\ Returns(FALSE)
    ELSE /\ pc' = (IF service THEN "api_metadata" ELSE "api_authenticate")
         /\ UNCHANGED ret

\* lines 364-404: the GET of the public CSV export, bringing rows
PublicCsvRows(rows) ==
    /\ pc = "csv"
    /\ requests' = Sent("csv", TRUE)
    /\ data' = rows
    /\ last_error' = ""
    /\ Returns(TRUE)
    /\ UNCHANGED <<column_overrides, contracts_data, arg>>
    /\ UNCHANGED <<service, public_only, preferred_sheet_title>>

\* lines 375-379 and 220-227: the export answers with a status other than 200
PublicCsvStatus(status) ==
    /\ pc = "csv"
    /\ requests' = Failed("csv", status)
    /\ IF public_only
       THEN AfterCsvFailure
       ELSE /\ last_error' = "CSV público retornou status " \o status
                                \o ". Se a planilha for privada, compartilhe com o Service Account."
            /\ AfterCsvFailure
    /\ UNCHANGED <<data, column_overrides, contracts_data, arg>>
    /\ UNCHANGED <<service, public_only, preferred_sheet_title>>

\* lines 375 and 405-410: the GET raises
PublicCsvRaises(text) ==
    /\ pc = "csv"
    /\ requests' = Failed("csv", text)
    /\ IF public_only
       THEN AfterCsvFailure
       ELSE /\ last_error' = "Erro ao extrair CSV público: " \o text
            /\ AfterCsvFailure
    /\ UNCHANGED <<data, column_overrides, contracts_data, arg>>
    /\ UNCHANGED <<service, public_only, preferred_sheet_title>>

\* lines 381-387: the export answers with a table of no rows
PublicCsvEmpty ==
    /\ pc = "csv"
    /\ requests' = Sent("csv", FALSE)
    /\ IF public_only
       THEN AfterCsvFailure
       ELSE UNCHANGED last_error /\ AfterCsvFailure
    /\ UNCHANGED <<data, column_overrides, contracts_data, arg>>
    /\ UNCHANGED <<service, public_only, preferred_sheet_title>>

\* lines 229-232: authenticate() ahead of the API extraction
ApiAuthenticate(ok) ==
    /\ pc = "api_authenticate"
    /\ Authenticate(ok)
    /\ IF ok THEN pc' = "api_metadata" /\ UNCHANGED ret ELSE Returns(FALSE)
    /\ UNCHANGED <<data, column_overrides, contracts_data, arg>>
    /\ UNCHANGED <<public_only, preferred_sheet_title>>

\* lines 275-321: the metadata request of _extract_with_oauth2; a failure of it
\* falls back to the default range
ApiMetadata(ok) ==
    /\ pc = "api_metadata"
    /\ requests' = Sent("metadata", ok)
    /\ pc' = "api_values"
    /\ UNCHANGED <<data, column_overrides, contracts_data, last_error, arg, ret>>
    /\ UNCHANGED <<service, public_only, preferred_sheet_title>>

\* lines 323-356: the values request, bringing rows or nothing
ApiValues(rows) ==
    /\ pc = "api_values"
    /\ requests' = Sent("values", rows # << >>)
    /\ IF rows = << >>
       THEN /\ last_error' = "Planilha vazia ou sem dados acessíveis"
            /\ UNCHANGED data
            /\ Returns(FALSE)
       ELSE /\ data' = rows
            /\ last_error' = ""
            /\ Returns(TRUE)
    /\ UNCHANGED <<column_overrides, contracts_data, arg>>
    /\ UNCHANGED <<service, public_only, preferred_sheet_title>>

\* lines 323-326 and 358-362: the values request raises
ApiValuesRaises(text) ==
    /\ pc = "api_values"
    /\ requests' = Failed("values", text)
    /\ last_error' = "Erro no OAuth2: " \o text
    /\ Returns(FALSE)
    /\ UNCHANGED <<data, column_overrides, contracts_data, arg>>
    /\ UNCHANGED <<service, public_only, preferred_sheet_title>>

\* lines 45-138: authenticate() called by itself; the public mode returns
\* False at once, with no request sent
CallAuthenticate(ok) ==
    /\ pc = "idle"
    /\ arg' = ""
    /\ IF public_only
       THEN /\ requests' = << >>
            /\ last_error' = ""
            /\ ret' = [op |-> "authenticate", out |-> FALSE]
            /\ UNCHANGED service
       ELSE /\ requests' = << [request |-> "authenticate", ok |-> ok,
                               error |-> IF ok THEN "" ELSE NoCredentials] >>
            /\ last_error' = (IF ok THEN "" ELSE NoCredentials)
            /\ ret' = [op |-> "authenticate", out |-> ok]
            /\ service' = (service \/ ok)
    /\ UNCHANGED <<data, column_overrides, contracts_data>>
    /\ UNCHANGED <<public_only, preferred_sheet_title, pc>>

\* the requests of extract_contracts_data outside the public mode: the
\* authenticate() of lines 1278-1280 when no service is built, then the metadata
\* and the values of the contracts tab
ContractRequests(ok, found) ==
    (IF service THEN << >>
     ELSE << [request |-> "authenticate", ok |-> ok,
              error |-> IF ok THEN "" ELSE NoCredentials] >>)
    \o (IF service \/ ok
        THEN << [request |-> "metadata", ok |-> TRUE, error |-> ""],
                [request |-> "values", ok |-> found # << >>, error |-> ""] >>
        ELSE << >>)

\* lines 1268-1341: extract_contracts_data, found the rows of the contracts tab,
\* << >> for a tab without values
FetchContracts(ok, found) ==
    /\ pc = "idle"
    /\ arg' = ""
    /\ IF public_only
       THEN /\ requests' = << >>
            /\ contracts_data' = << >>
            /\ last_error' = ""
            /\ ret' = [op |-> "extract_contracts_data", out |-> TRUE]
            /\ UNCHANGED service
       ELSE /\ requests' = ContractRequests(ok, found)
            /\ service' = (service \/ ok)
            /\ last_error' = (IF service THEN last_error
                              ELSE IF ok THEN "" ELSE NoCredentials)
            /\ contracts_data' = (IF (service \/ ok) /\ found # << >>
                                  THEN found ELSE contracts_data)
            /\ ret' = [op |-> "extract_contracts_data",
                       out |-> (service \/ ok) /\ found # << >>]
    /\ UNCHANGED <<data, column_overrides>>
    /\ UNCHANGED <<public_only, preferred_sheet_title, pc>>

NextFetch ==
    \/ \E sheet_url \in SheetUrls : CallExtract(sheet_url)
    \/ \E ok \in BOOLEAN : ResolveAuthenticate(ok)
    \/ \E ok \in BOOLEAN : FindGidAuthenticate(ok)
    \/ \E ok \in BOOLEAN : FindGidMetadata(ok)
    \/ \E rows \in FetchedBatches : PublicCsvRows(rows)
    \/ \E status \in CsvStatuses : PublicCsvStatus(status)
    \/ \E text \in TransportErrors : PublicCsvRaises(text)
    \/ PublicCsvEmpty
    \/ \E ok \in BOOLEAN : ApiAuthenticate(ok)
    \/ \E ok \in BOOLEAN : ApiMetadata(ok)
    \/ \E rows \in FetchedBatches \cup {<< >>} : ApiValues(rows)
    \/ \E text \in TransportErrors : ApiValuesRaises(text)
    \/ \E ok \in BOOLEAN : CallAuthenticate(ok)
    \/ \E ok \in BOOLEAN, found \in ContractLists \cup {<< >>} : FetchContracts(ok, found)

SpecFetch == InitFetch /\ [][NextFetch]_vars

(***************************************************************************)
(* C20 as claimed: within one extract_data_from_sheet call that found the  *)
(* sheet id, the CSV export is attempted first and exactly once: every     *)
(* request to the authenticated API (authentication, metadata or values)   *)
(* comes after a CSV attempt that failed, at most one CSV request is sent, *)
(* and a call that has returned has sent one.                              *)
(***************************************************************************)
CsvRequests == SelectSeq(requests, LAMBDA r : r.request = "csv")

C20_CsvFirstOnce ==
    (pc # "idle" \/ ret.op = "extract_data_from_sheet") =>
    /\ \A i \in 1..Len(requests) :
          requests[i].request # "csv" =>
              \E j \in 1..(i - 1) : requests[j].request = "csv" /\ ~requests[j].ok
    /\ Len(CsvRequests) <= 1
    /\ (pc = "idle" /\ ret.op = "extract_data_from_sheet" /\ extract_sheet_id(arg) # "")
          => Len(CsvRequests) = 1

(***************************************************************************)
(* C21 as claimed: when extract_data_from_sheet returns False, last_error  *)
(* is not empty and carries the message of the transport failure behind    *)
(* the return (the HTTP status or the text of the exception of the last    *)
(* request, which is the one that failed), in the public mode as well as   *)
(* with authentication.                                                    *)
(***************************************************************************)
ExtractFailed ==
    pc = "idle" /\ ret = [op |-> "extract_data_from_sheet", out |-> FALSE]

C21_CarriesTransportMessage ==
    ExtractFailed =>
        /\ last_error # ""
        /\ requests # << >> => Contains(last_error, requests[Len(requests)].error)

(***************************************************************************)
(* C22 as claimed: a column whose normalized header holds a date word      *)
(* (data, emissao, envio, vencimento, prazo, dia, mes, ano) is never the   *)
(* proposal or the invoice column of a view, unless the override of the    *)
(* role names it: in the flat view and in the hierarchical view.           *)
(***************************************************************************)
NotDateNamed(column, role) ==
    column # "" /\ column # column_overrides[role] => ~HasWord(column, exclude_date_words)

C22_NoDateColumnAsValue ==
    data # << >> =>
        \A role \in {"proposta", "boleto"} :
            /\ FlatReturned /\ ~IsError(ret.out) =>
                   NotDateNamed(ret.out.columns_used[role], role)
            /\ DetailedReturned =>
                   NotDateNamed(DetailedColumns(data, column_overrides)[role], role)

(***************************************************************************)
(* C23 as claimed: when neither the override, nor a candidate name, nor a  *)
(* keyword gives the proposal or the invoice column, the column the        *)
(* fallback by content picks has the highest number of sampled cells that  *)
(* normalize to a nonzero amount, and that number is above 0; a column     *)
(* whose sampled cells are all text is never picked, the role staying      *)
(* unresolved.                                                             *)
(***************************************************************************)
\* the sampled cells of column h that normalize to a nonzero amount
NonzeroCells(d, h, n) ==
    Cardinality({i \in 1..Len(FirstRows(d, n)) : NumericOf(RowGet(d[i], h)).m # 0})

\* column is no column, or the most numeric column of the sample
MostNumeric(d, column, n) ==
    column # "" =>
        /\ NonzeroCells(d, column, n) > 0
        /\ \A i \in 1..Len(headers_of(d)) :
               NonzeroCells(d, headers_of(d)[i], n) <= NonzeroCells(d, column, n)

\* the column the names give for a value role of the flat view (lines 736-756)
FlatNamed(d, ov, role) ==
    Or(Or(OverrideOf(ov, role, headers_of(d)),
          find_by_direct_map(headers_of(d),
              IF role = "proposta" THEN direct_map_proposta ELSE direct_map_boleto)),
       find_column_by_keywords(headers_of(d),
              IF role = "proposta" THEN keywords_proposta ELSE keywords_boleto))

\* the same for the hierarchical view (lines 925-953)
DetailedNamed(d, ov, role) ==
    DropDateColumn(
        Or(OverrideOf(ov, role, headers_of(d)),
           Or(find_by_direct_map(headers_of(d),
                  IF role = "proposta" THEN direct_map_proposta ELSE direct_map_boleto),
              find_column_by_keywords(headers_of(d), <<role>>))))

C23_FallbackPicksMostNumeric ==
    data # << >> =>
        \A role \in {"proposta", "boleto"} :
            /\ FlatReturned /\ ~IsError(ret.out)
                  /\ FlatNamed(data, column_overrides, role) = "" =>
                   MostNumeric(data, ret.out.columns_used[role], SampleRows)
            /\ DetailedReturned /\ DetailedNamed(data, column_overrides, role) = "" =>
                   MostNumeric(data, DetailedColumns(data, column_overrides)[role],
                               NumericSample)

(***************************************************************************)
(* C24: every leaf record the hierarchical view keeps under a month key m  *)
(* has a 'data' field that _extract_month_year_from_date normalizes to m   *)
(* again; so for every month of the view the reconciler's list of records  *)
(* whose date falls in another month than the one queried is empty.        *)
(***************************************************************************)
\* src/app.py line 672: the records of the month whose date gives another key
invalid_date(items_detalhado, mes_key) ==
    SelectSeq(items_detalhado,
              LAMBDA it : extract_month_year_from_date(it.data) # mes_key)

C24_LeafDatesGiveTheirMonth ==
    DetailedReturned /\ ~IsError(ret.out) =>
        \A j \in 1..Len(ret.out.detailed_data) :
            LET m == ret.out.detailed_data[j]
            IN  /\ \A k \in 1..Len(LeafRecords(m)) :
                       extract_month_year_from_date(LeafRecords(m)[k].data) = m.month
                /\ invalid_date(LeafRecords(m), m.month) = << >>

\* the rows of 10/06/2025 and 15/07/2025, each under its month
C24_Witness ==
    /\ DetailedReturned /\ ~IsError(ret.out)
    /\ Len(ret.out.detailed_data) = 2
    /\ LeafRecords(ret.out.detailed_data[1])[1].data = "10/06/2025"
    /\ LeafRecords(ret.out.detailed_data[2])[1].data = "15/07/2025"

(***************************************************************************)
(* C25 as claimed: every value _extract_month_year_from_date returns is    *)
(* none or a canonical month key: four digits of the year, '-', and the    *)
(* two digits of a month between 01 and 12.                                *)
(***************************************************************************)
CanonicalKey(key) ==
    /\ Len(key) = 7
    /\ \A i \in 1..4 : Ch(key, i) \in Digits
    /\ Ch(key, 5) = "-"
    /\ \E k \in 1..12 : SubSeq(key, 6, 7) = MonthDigits(k)

C25_CanonicalKeys == DateReturned => ret.out = "" \/ CanonicalKey(ret.out)

(***************************************************************************)
(* C26 as claimed: the month-name rule of _extract_month_year_from_date    *)
(* gives a key only when the word of letters beside the four-digit year,   *)
(* lower-cased and without diacritics, is an entry of the month table; a   *)
(* word that is no month name, as in 'setup 2025' or 'marketing 2025',     *)
(* gives no key.                                                           *)
(***************************************************************************)
\* the word the month-name rule reads in text_norm, "" for no match
NameBesideYear(text_norm) ==
    LET before == Search(text_norm, NameThenYear, FALSE, FALSE)
        after  == Search(text_norm, YearThenName, FALSE, FALSE)
    IN  IF NameMatchKey(text_norm, before, 1, 3) # "" THEN Group(text_norm, before, 1)
        ELSE IF after # << >> THEN Group(text_norm, after, 3)
        ELSE IF before # << >> THEN Group(text_norm, before, 1)
        ELSE ""

C26_OnlyTableNames ==
    DateReturned =>
        /\ MonthNameRule(normalize_date(arg)) # "" =>
               month_map(NameBesideYear(normalize_date(arg))) # ""
        /\ arg \in DateWords => ret.out = ""

(***************************************************************************)
(* C27 as claimed: _extract_expense_value returns a negated amount exactly *)
(* when the text is enclosed in parentheses or has a leading or trailing   *)
(* minus sign; a text that only holds a parenthesised fragment or an inner *)
(* hyphen beside a positive amount, as '100 (pago)', is not negated.       *)
(***************************************************************************)
\* the sign marks of the claim, on the stripped text
SignMarked(s) ==
    \/ StartsWith(s, "(") /\ EndsWith(s, ")")
    \/ StartsWith(s, "-")
    \/ EndsWith(s, "-")

C27_NegatedIffSignMarked ==
    ValueReturned =>
        /\ ret.out.value.m < 0 <=> (SignMarked(Strip(arg)) /\ ret.out.value.m # 0)
        /\ arg = "100 (pago)" => ret.out.value = Dec(100, 0)

(***************************************************************************)
(* C28 as claimed: the month keys of every returned view come in ascending *)
(* order: in the flat view, in the hierarchical view, and in the flat view *)
(* get_monthly_data_with_projections returns with the projected months     *)
(* merged in.                                                              *)
(***************************************************************************)
Ascending(buckets) ==
    \A i \in 1..(Len(buckets) - 1) : StrLess(buckets[i].month, buckets[i + 1].month)

C28_MonthsAscending ==
    /\ FlatReturned /\ ~IsError(ret.out) => Ascending(ret.out.resumo_mensal)
    /\ DetailedReturned /\ ~IsError(ret.out) => Ascending(ret.out.detailed_data)
    /\ ManualReturned /\ "resumo_mensal" \in DOMAIN ret.out =>
           Ascending(ret.out.resumo_mensal)

(***************************************************************************)
(* C29: in the public mode (public_only set) no sequence of authenticate,  *)
(* extract_data_from_sheet and extract_contracts_data calls authenticates  *)
(* or calls the Sheets API: no service is ever built, the only request     *)
(* sent is the CSV export, authenticate returns False, a CSV export that   *)
(* fails makes extract_data_from_sheet return False at once, and           *)
(* extract_contracts_data returns True with an empty contract list.        *)
(***************************************************************************)
C29_PublicModeNeverAuthenticates ==
    public_only =>
        /\ ~service
        /\ \A i \in 1..Len(requests) : requests[i].request = "csv"
        /\ pc \in {"idle", "csv"}
        /\ ret.op = "authenticate" => ~ret.out
        /\ requests # << >> /\ ~requests[Len(requests)].ok =>
               ret = [op |-> "extract_data_from_sheet", out |-> FALSE] /\ pc = "idle"
        /\ ret.op = "extract_contracts_data" => ret.out /\ contracts_data = << >>

\* a refused CSV export in the public mode: the call is over, with that one request
C29_Witness ==
    /\ public_only
    /\ ExtractFailed
    /\ requests = << [request |-> "csv", ok |-> FALSE, error |-> "404"] >>
    /\ ~service

(***************************************************************************)
(* C30 as claimed: on the same rows and overrides the flat view and the    *)
(* hierarchical view agree on the structure of the data: both return an    *)
(* error or both succeed, and when both succeed they hold the same month   *)
(* keys, with the count of a flat bucket equal to the total_registros of   *)
(* the month of the hierarchy.                                             *)
(***************************************************************************)
\* month key |-> number of records, of a sequence of buckets
CountsOf(buckets, count(_)) ==
    {<<buckets[i].month, count(buckets[i])>> : i \in 1..Len(buckets)}

C30_ViewsAgreeOnStructure ==
    FlatReturned \/ DetailedReturned =>
        /\ IsError(FlatNow) <=> IsError(DetailedNow)
        /\ ~IsError(FlatNow) /\ ~IsError(DetailedNow) =>
               CountsOf(FlatNow.resumo_mensal, LAMBDA b : b.count)
                   = CountsOf(DetailedNow.detailed_data, LAMBDA m : m.totals.total_registros)

====
